---- MODULE Spec2Model ----
(***************************************************************************)
(* journal-prompts: the prompt loader chain (yaml-parser.ts) and the       *)
(* JournalPromptsApp controller (main.ts), as a state machine.             *)
(*                                                                         *)
(* Strings are TLA+ strings; a parsed YAML mapping is a function whose     *)
(* DOMAIN is the set of keys present, so a missing key is a key outside    *)
(* the DOMAIN.  A CategoryGroup (a JS object, ordered by insertion) is a   *)
(* sequence of [category, prompts] entries.                                *)
(***************************************************************************)
EXTENDS Integers, Sequences, FiniteSets, TLC

VARIABLES
  content,      \* the logical content the server's documents carry
  unified,      \* ./journal-prompts.yaml as fetched and parsed
  legacy,       \* ./prompts_<language>.yaml, by the language in the file name
  loads,        \* the catalogs built from this source so far, in order
  reqLang,      \* loadPrompts: the language argument
  lpc,          \* loadPrompts: where the call stands
  attempts,     \* loadPrompts: the normalizers run so far, in order
  logged,       \* loadPrompts: console.warn calls so far
  returned,     \* loadPrompts: the CategoryGroup returned
  produced,     \* the last direct call of one normalizer: which, for which language, its outcome
  categoryGroups,         \* JournalPromptsApp.categoryGroups
  currentCategory,        \* JournalPromptsApp.currentCategory
  currentPrompt,          \* JournalPromptsApp.currentPrompt (NoPrompt is null)
  currentLanguage,        \* JournalPromptsApp.currentLanguage
  isPinned,               \* JournalPromptsApp.isPinned
  purposeVisible,         \* JournalPromptsApp.purposeVisible
  wasOpenedWithDeepLink,  \* JournalPromptsApp.wasOpenedWithDeepLink
  search,                 \* window.location.search, as its parameters id, category, prompt
  storedLanguage,         \* localStorage: the language saved by SettingsManager
  translations,           \* TranslationManager.translations: the languages loaded
  phase,                  \* the page: closed, loading, ready, selectingNewPrompt (inside the loop), error
  switches,               \* the switchLanguage calls suspended at an await, oldest first
  newPrompt,              \* selectNewPrompt: its local newPrompt while the loop runs
  last,                   \* the handler that ran last
  translationFiles,       \* the languages whose ./translations/<language>.json can be imported
  translationLanguage,    \* TranslationManager.currentLanguage
  initializing,           \* the TranslationManager.initialize calls suspended at an import
  initialized,            \* the TranslationManager.initialize call that ended last
  storedTheme,            \* localStorage: the item 'journal-prompts-theme'
  documentLang,           \* document.documentElement.lang
  dataTheme,              \* the data-theme attribute of document.documentElement ("" is none)
  storageThrows,          \* localStorage raises an error on getItem and setItem
  settingsCall            \* the SettingsManager set call that ran last

loaderVars == <<reqLang, lpc, attempts, logged, returned, produced>>
sourceVars == <<content, unified, legacy>>
translationVars == <<translationFiles, translationLanguage, initializing, initialized>>
settingsVars == <<storedTheme, documentLang, dataTheme, storageThrows, settingsCall>>
envVars == <<content, unified, legacy, loads, translationVars, settingsVars>>
pageVars ==
  <<categoryGroups, currentCategory, currentPrompt, currentLanguage, isPinned, purposeVisible,
    wasOpenedWithDeepLink, search, phase, switches, newPrompt, last>>
appVars ==
  <<categoryGroups, currentCategory, currentPrompt, currentLanguage, isPinned, purposeVisible,
    wasOpenedWithDeepLink, search, storedLanguage, translations, phase, switches, newPrompt, last>>
vars ==
  <<content, unified, legacy, loads, reqLang, lpc, attempts, logged, returned, produced,
    categoryGroups, currentCategory, currentPrompt, currentLanguage, isPinned, purposeVisible,
    wasOpenedWithDeepLink, search, storedLanguage, translations, phase, switches, newPrompt, last,
    translationFiles, translationLanguage, initializing, initialized,
    storedTheme, documentLang, dataTheme, storageThrows, settingsCall>>

(***************************************************************************)
(* Bounds of the model.                                                    *)
(***************************************************************************)
MaxPrompts == 2
MaxInFlight == 2
\* How many catalogs are built in a row from one source.
MaxLoads == 3

(***************************************************************************)
(* String functions of the JS runtime.                                     *)
(***************************************************************************)
Digits == "0123456789"
UpperLetters == "ABCDEFGHIJKLMNOPQRSTUVWXYZ"
LowerLetters == "abcdefghijklmnopqrstuvwxyz"

CharAt(s, i) == SubSeq(s, i, i)

IsWhitespace(c) == c \in {" ", "\t", "\n"}

RECURSIVE TrimStart(_)
TrimStart(s) ==
  IF Len(s) > 0 /\ IsWhitespace(CharAt(s, 1))
  THEN TrimStart(SubSeq(s, 2, Len(s)))
  ELSE s

RECURSIVE TrimEnd(_)
TrimEnd(s) ==
  IF Len(s) > 0 /\ IsWhitespace(CharAt(s, Len(s)))
  THEN TrimEnd(SubSeq(s, 1, Len(s) - 1))
  ELSE s

Trim(s) == TrimEnd(TrimStart(s))

StartsWith(s, prefix) ==
  /\ Len(prefix) <= Len(s)
  /\ SubSeq(s, 1, Len(prefix)) = prefix

LowerChar(c) ==
  IF \E i \in 1..Len(UpperLetters) : CharAt(UpperLetters, i) = c
  THEN CharAt(LowerLetters, CHOOSE i \in 1..Len(UpperLetters) : CharAt(UpperLetters, i) = c)
  ELSE c

RECURSIVE ToLowerCase(_)
ToLowerCase(s) ==
  IF Len(s) = 0 THEN s
  ELSE LowerChar(CharAt(s, 1)) \o ToLowerCase(SubSeq(s, 2, Len(s)))

\* String(n) of a non-negative integer, as a template literal renders it.
RECURSIVE NumberToString(_)
NumberToString(n) ==
  IF n < 10 THEN CharAt(Digits, n + 1)
  ELSE NumberToString(n \div 10) \o CharAt(Digits, (n % 10) + 1)

\* The id without its category identifier.
CombinedIdSequenceOnly(categoryId, id) == NumberToString(id)

\* The id with a separator between its parts.
CombinedIdWithSeparator(categoryId, id) == categoryId \o "-" \o NumberToString(id)

\* `${categoryId}${id}`
CombinedId(categoryId, id) == categoryId \o NumberToString(id)

(***************************************************************************)
(* The source documents.  Every document is built from a logical content:  *)
(* a list of logical prompts (category identifier, sequence number, which  *)
(* translations exist), published in one of the three schemas.             *)
(***************************************************************************)
LanguageCodes == {"en", "de"}

\* Which translations a logical prompt has: both languages, one of them, none,
\* or English plus a German entry that lacks its purpose text.
TranslationKinds == <<"both", "en", "de", "none", "partial">>

\* Category identifiers and sequence numbers of the logical prompts.
LogicalIds ==
  << [cat |-> "B", seq |-> 1], [cat |-> "B", seq |-> 11],
     [cat |-> "B1", seq |-> 1], [cat |-> "C", seq |-> 1] >>

\* Which display names the categories have: both languages, English only, none; or
\* English only and, in the Nested shape, no entry at all for the first category.
NameKinds == {"both", "en", "none", "absent"}

LogicalPromptAt(k) ==
  LET nk == Len(TranslationKinds)
      lid == LogicalIds[((k - 1) \div nk) + 1]
  IN [cat |-> lid.cat, seq |-> lid.seq, kind |-> TranslationKinds[((k - 1) % nk) + 1]]

NumLogicalPrompts == Len(LogicalIds) * Len(TranslationKinds)

\* The contents: up to MaxPrompts logical prompts, in a fixed order.
Contents ==
  { [i \in 1..Len(s) |-> LogicalPromptAt(s[i])] :
      s \in { t \in UNION { [1..n -> 1..NumLogicalPrompts] : n \in 0..MaxPrompts } :
                \A i, j \in 1..Len(t) : i < j => t[i] < t[j] } }

\* The texts of a logical prompt: no two source prompts share a text, but those of
\* kind "same" within one category.
PromptText(lp, lang) ==
  IF lp.kind = "same"
  THEN (IF lang = "en" THEN "Describe " ELSE "Beschreibe ") \o lp.cat \o " (same)\n"
  ELSE (IF lang = "en" THEN "Describe " ELSE "Beschreibe ")
         \o lp.cat \o "." \o NumberToString(lp.seq) \o " (" \o lp.kind \o ")\n"

PurposeText(lp, lang) ==
  (IF lang = "en" THEN "Reflect on " ELSE "Bedenke ")
    \o lp.cat \o "." \o NumberToString(lp.seq) \o " (" \o lp.kind \o ")\n"

FullTranslation(lp, lang) ==
  [f \in {"prompt", "purpose"} |->
     IF f = "prompt" THEN PromptText(lp, lang) ELSE PurposeText(lp, lang)]

\* A translation entry without its purpose text.
PartialTranslation(lp, lang) ==
  [f \in {"prompt"} |-> PromptText(lp, lang)]

\* The translations of a logical prompt, by language code.
TranslationsOf(lp) ==
  CASE lp.kind \in {"both", "same"} -> [l \in {"en", "de"} |-> FullTranslation(lp, l)]
    [] lp.kind = "en" -> [l \in {"en"} |-> FullTranslation(lp, l)]
    [] lp.kind = "de" -> [l \in {"de"} |-> FullTranslation(lp, l)]
    [] lp.kind = "none" -> [l \in {} |-> FullTranslation(lp, l)]
    [] lp.kind = "partial" ->
         [l \in {"en", "de"} |->
            IF l = "de" THEN PartialTranslation(lp, l) ELSE FullTranslation(lp, l)]

DisplayName(cat, lang) ==
  CASE cat = "B" /\ lang = "en" -> "Biography"
    [] cat = "B" /\ lang = "de" -> "Biografie"
    [] cat = "B1" /\ lang = "en" -> "Basics"
    [] cat = "B1" /\ lang = "de" -> "Grundlagen"
    [] cat = "C" /\ lang = "en" -> "Creativity"
    [] cat = "C" /\ lang = "de" -> "Kreatives"
    [] OTHER -> cat \o "-" \o lang

NamesOf(cat, nameKind) ==
  CASE nameKind = "both" -> [l \in {"en", "de"} |-> DisplayName(cat, l)]
    [] nameKind \in {"en", "absent"} -> [l \in {"en"} |-> DisplayName(cat, l)]
    [] nameKind = "none" -> [l \in {} |-> DisplayName(cat, l)]

\* A prompt entry of a Clean category's `prompts` or of a Nested `prompts` list.
PromptEntry(lp) == [id |-> lp.seq, category_id |-> lp.cat, tr |-> TranslationsOf(lp)]

RECURSIVE CategoryOrder(_, _)
\* The category identifiers of a content, in order of first appearance.
CategoryOrder(L, seen) ==
  IF Len(L) = 0 THEN <<>>
  ELSE IF Head(L).cat \in seen THEN CategoryOrder(Tail(L), seen)
       ELSE <<Head(L).cat>> \o CategoryOrder(Tail(L), seen \cup {Head(L).cat})

RECURSIVE PromptsOfCategory(_, _)
PromptsOfCategory(L, cat) ==
  IF Len(L) = 0 THEN <<>>
  ELSE (IF Head(L).cat = cat THEN <<PromptEntry(Head(L))>> ELSE <<>>)
         \o PromptsOfCategory(Tail(L), cat)

RECURSIVE AllPromptEntries(_)
AllPromptEntries(L) ==
  IF Len(L) = 0 THEN <<>> ELSE <<PromptEntry(Head(L))>> \o AllPromptEntries(Tail(L))

\* CleanPromptsData: categories keyed by id, each with its names and prompts.
CleanDocument(L, nameKind) ==
  LET cats == CategoryOrder(L, {})
  IN [ok |-> TRUE, kind |-> "clean",
      categories |-> [i \in 1..Len(cats) |->
         [id |-> cats[i], names |-> NamesOf(cats[i], nameKind),
          hasPrompts |-> TRUE, prompts |-> PromptsOfCategory(L, cats[i])]],
      prompts |-> <<>>]

\* PromptsData: a list of categories and a list of prompts.
NestedDocument(L, nameKind) ==
  LET all == CategoryOrder(L, {})
      cats == IF nameKind = "absent" /\ Len(all) > 0 THEN Tail(all) ELSE all
  IN [ok |-> TRUE, kind |-> "nested",
      categories |-> [i \in 1..Len(cats) |->
         [id |-> cats[i], names |-> NamesOf(cats[i], nameKind),
          hasPrompts |-> FALSE, prompts |-> <<>>]],
      prompts |-> AllPromptEntries(L)]

\* A document with no top-level `categories`.
OtherDocument == [ok |-> TRUE, kind |-> "other", categories |-> <<>>, prompts |-> <<>>]

\* fetch('./journal-prompts.yaml') answered with response.ok false.
UnavailableDocument == [ok |-> FALSE, kind |-> "other", categories |-> <<>>, prompts |-> <<>>]

UnifiedDocument(L, nameKind, kind) ==
  CASE kind = "clean" -> CleanDocument(L, nameKind)
    [] kind = "nested" -> NestedDocument(L, nameKind)
    [] kind = "other" -> OtherDocument
    [] kind = "unavailable" -> UnavailableDocument

UnifiedKinds == {"clean", "nested", "other", "unavailable"}

\* The languages a file prompts_<language>.yaml exists for.
LegacyLanguages == {"EN", "DE"}

RECURSIVE LegacyDocuments(_, _, _)
\* The `---` separated documents of one language's legacy file: one per logical
\* prompt translated into that language, its id in the CategoryPrefix + Number format.
LegacyDocuments(L, nameKind, lang) ==
  IF Len(L) = 0 THEN <<>>
  ELSE LET lp == Head(L)
           names == NamesOf(lp.cat, nameKind)
           here == lang \in DOMAIN TranslationsOf(lp)
                     /\ DOMAIN TranslationsOf(lp)[lang] = {"prompt", "purpose"}
       IN (IF here
           THEN << [id |-> lp.cat \o NumberToString(lp.seq),
                    category |-> IF lang \in DOMAIN names THEN names[lang] ELSE lp.cat,
                    tr |-> TranslationsOf(lp)[lang]] >>
           ELSE <<>>) \o LegacyDocuments(Tail(L), nameKind, lang)

LegacyFiles(L, nameKind, present) ==
  [f \in LegacyLanguages |->
     [ok |-> present,
      docs |-> IF present THEN LegacyDocuments(L, nameKind, ToLowerCase(f)) ELSE <<>>]]

(***************************************************************************)
(* yaml-parser.ts: the three normalizers.  A normalizer's outcome is       *)
(* [threw, prompts, warnings]: whether it raised an error, the prompts it  *)
(* pushed (in order) and the console.warn calls it made.                   *)
(***************************************************************************)
Prompt(id, category, translation) ==
  [id |-> id, category |-> category,
   prompt |-> Trim(translation["prompt"]), purpose |-> Trim(translation["purpose"])]

Warning(kind, id) == [kind |-> kind, id |-> id]

Outcome(threw, prompts, warnings) ==
  [threw |-> threw, prompts |-> prompts, warnings |-> warnings]

\* One outcome after another; nothing runs after an error was raised.
Then(a, b) ==
  IF a.threw THEN a
  ELSE Outcome(b.threw, a.prompts \o b.prompts, a.warnings \o b.warnings)

RECURSIVE GroupInto(_, _)
\* prompts.forEach(prompt => grouped[prompt.category].push(prompt))
GroupInto(grouped, prompts) ==
  IF Len(prompts) = 0 THEN grouped
  ELSE LET p == Head(prompts)
           known == \E i \in 1..Len(grouped) : grouped[i].category = p.category
           next ==
             IF known
             THEN [i \in 1..Len(grouped) |->
                     IF grouped[i].category = p.category
                     THEN [grouped[i] EXCEPT !.prompts = Append(@, p)]
                     ELSE grouped[i]]
             ELSE Append(grouped, [category |-> p.category, prompts |-> <<p>>])
       IN GroupInto(next, Tail(prompts))

GroupByCategory(prompts) == GroupInto(<<>>, prompts)

\* translation && typeof translation === 'object' && translation.prompt && translation.purpose
IsUsable(entries, languageCode) ==
  /\ languageCode \in DOMAIN entries
  /\ "prompt" \in DOMAIN entries[languageCode]
  /\ entries[languageCode]["prompt"] # ""
  /\ "purpose" \in DOMAIN entries[languageCode]
  /\ entries[languageCode]["purpose"] # ""

\* The raw category identifier wherever the requested language has no name.
CategoryNameWithoutEnglish(names, languageCode, categoryId) ==
  IF languageCode \in DOMAIN names /\ names[languageCode] # "" THEN names[languageCode]
  ELSE categoryId

\* names[languageCode] || names.en || categoryId
CategoryName(names, languageCode, categoryId) ==
  IF languageCode \in DOMAIN names /\ names[languageCode] # "" THEN names[languageCode]
  ELSE IF "en" \in DOMAIN names /\ names["en"] # "" THEN names["en"]
  ELSE categoryId

\* The loop body without the English fallback: a prompt lacking the requested
\* language's translation is skipped.
CleanPromptStepWithoutFallback(categoryId, categoryName, cleanPrompt, languageCode) ==
  IF IsUsable(cleanPrompt.tr, languageCode)
  THEN Outcome(FALSE,
         <<Prompt(CombinedId(categoryId, cleanPrompt.id), categoryName, cleanPrompt.tr[languageCode])>>,
         <<>>)
  ELSE Outcome(FALSE, <<>>, <<Warning("skipped", CombinedId(categoryId, cleanPrompt.id))>>)

\* The body of the loop over category.prompts.
CleanPromptStep(categoryId, categoryName, cleanPrompt, languageCode) ==
  IF IsUsable(cleanPrompt.tr, languageCode)
  THEN Outcome(FALSE,
         <<Prompt(CombinedId(categoryId, cleanPrompt.id), categoryName, cleanPrompt.tr[languageCode])>>,
         <<>>)
  ELSE IF IsUsable(cleanPrompt.tr, "en")
  THEN Outcome(FALSE,
         <<Prompt(CombinedId(categoryId, cleanPrompt.id), categoryName, cleanPrompt.tr["en"])>>,
         <<Warning("fallback", CombinedId(categoryId, cleanPrompt.id))>>)
  ELSE Outcome(FALSE, <<>>, <<Warning("skipped", CombinedId(categoryId, cleanPrompt.id))>>)

RECURSIVE CleanPromptLoop(_, _, _, _)
CleanPromptLoop(categoryId, categoryName, cleanPrompts, languageCode) ==
  IF Len(cleanPrompts) = 0 THEN Outcome(FALSE, <<>>, <<>>)
  ELSE Then(CleanPromptStep(categoryId, categoryName, Head(cleanPrompts), languageCode),
            CleanPromptLoop(categoryId, categoryName, Tail(cleanPrompts), languageCode))

\* Object.entries(data.categories): a mapping's keys, or an array's indices.
CategoryEntries(data) ==
  [i \in 1..Len(data.categories) |->
     [key |-> IF data.kind = "clean" THEN data.categories[i].id ELSE NumberToString(i - 1),
      value |-> data.categories[i]]]

RECURSIVE CleanCategoryLoop(_, _)
CleanCategoryLoop(entries, languageCode) ==
  IF Len(entries) = 0 THEN Outcome(FALSE, <<>>, <<>>)
  ELSE LET categoryId == Head(entries).key
           category == Head(entries).value
           this ==
             IF ~category.hasPrompts
             THEN Outcome(FALSE, <<>>, <<Warning("noPromptsArray", categoryId)>>)
             ELSE CleanPromptLoop(categoryId,
                    CategoryName(category.names, languageCode, categoryId),
                    category.prompts, languageCode)
       IN Then(this, CleanCategoryLoop(Tail(entries), languageCode))

loadPromptsFromCleanStructure(data, language) ==
  IF data.kind \notin {"clean", "nested"}
  THEN Outcome(TRUE, <<>>, <<>>)
  ELSE CleanCategoryLoop(CategoryEntries(data), ToLowerCase(language))

\* categoryMap.get(id) after categoryMap.set(category.id, category) for each entry.
CategoryMapHas(categories, id) == \E i \in 1..Len(categories) : categories[i].id = id

CategoryMapGet(categories, id) ==
  categories[CHOOSE i \in 1..Len(categories) :
               /\ categories[i].id = id
               /\ \A j \in 1..Len(categories) : categories[j].id = id => j <= i]

\* translation.prompt.trim() and translation.purpose.trim() need both texts.
HasBothTexts(translation) == {"prompt", "purpose"} \subseteq DOMAIN translation

\* The body of the loop over data.prompts.
NestedPromptStep(categories, multiPrompt, languageCode) ==
  LET id == CombinedId(multiPrompt.category_id, multiPrompt.id)
  IN IF ~CategoryMapHas(categories, multiPrompt.category_id)
     THEN Outcome(FALSE, <<>>, <<Warning("categoryNotFound", id)>>)
     ELSE LET category == CategoryMapGet(categories, multiPrompt.category_id)
              categoryName == CategoryName(category.names, languageCode, multiPrompt.category_id)
          IN IF languageCode \notin DOMAIN multiPrompt.tr
             THEN IF "en" \in DOMAIN multiPrompt.tr
                  THEN IF HasBothTexts(multiPrompt.tr["en"])
                       THEN Outcome(FALSE, <<Prompt(id, categoryName, multiPrompt.tr["en"])>>,
                                    <<Warning("fallback", id)>>)
                       ELSE Outcome(TRUE, <<>>, <<Warning("fallback", id)>>)
                  ELSE Outcome(FALSE, <<>>, <<Warning("skipped", id)>>)
             ELSE IF HasBothTexts(multiPrompt.tr[languageCode])
                  THEN Outcome(FALSE, <<Prompt(id, categoryName, multiPrompt.tr[languageCode])>>, <<>>)
                  ELSE Outcome(TRUE, <<>>, <<>>)

RECURSIVE NestedPromptLoop(_, _, _)
NestedPromptLoop(categories, multiPrompts, languageCode) ==
  IF Len(multiPrompts) = 0 THEN Outcome(FALSE, <<>>, <<>>)
  ELSE Then(NestedPromptStep(categories, Head(multiPrompts), languageCode),
            NestedPromptLoop(categories, Tail(multiPrompts), languageCode))

loadPromptsFromNestedStructure(data, language) ==
  IF data.kind # "nested"
  THEN Outcome(TRUE, <<>>, <<>>)
  ELSE NestedPromptLoop(data.categories, data.prompts, ToLowerCase(language))

\* fetch(`./prompts_${language}.yaml`)
LegacyFile(files, language) ==
  IF language \in DOMAIN files THEN files[language] ELSE [ok |-> FALSE, docs |-> <<>>]

RECURSIVE LegacyDocumentLoop(_)
\* documents.map(doc => ({id: parsed.id, category: parsed.category, ...}))
LegacyDocumentLoop(docs) ==
  IF Len(docs) = 0 THEN Outcome(FALSE, <<>>, <<>>)
  ELSE LET parsed == Head(docs)
           this ==
             IF HasBothTexts(parsed.tr)
             THEN Outcome(FALSE, <<Prompt(parsed.id, parsed.category, parsed.tr)>>, <<>>)
             ELSE Outcome(TRUE, <<>>, <<>>)
       IN Then(this, LegacyDocumentLoop(Tail(docs)))

loadPromptsLegacy(files, language) ==
  IF ~LegacyFile(files, language).ok
  THEN Outcome(TRUE, <<>>, <<>>)
  ELSE LegacyDocumentLoop(LegacyFile(files, language).docs)

(***************************************************************************)
(* yaml-parser.ts: the loader chain, as one function of the documents.     *)
(***************************************************************************)
\* A catch block that logs nothing.
CaughtSilently(failed, warning, next) ==
  Outcome(next.threw, next.prompts, failed.warnings \o next.warnings)

\* What a catch block adds before the next normalizer runs.
Caught(failed, warning, next) ==
  Outcome(next.threw, next.prompts, failed.warnings \o <<warning>> \o next.warnings)

loadPromptsFromUnified(doc, language) ==
  IF ~doc.ok THEN Outcome(TRUE, <<>>, <<>>)
  ELSE LET clean == loadPromptsFromCleanStructure(doc, language)
       IN IF ~clean.threw THEN clean
          ELSE Caught(clean, Warning("cleanFailed", ""),
                      loadPromptsFromNestedStructure(doc, language))

\* The chain answers with an empty catalog where its last normalizer fails.
loadPromptsOrNothing(doc, files, language) ==
  LET fromUnified == loadPromptsFromUnified(doc, language)
      fromLegacy == loadPromptsLegacy(files, language)
  IN IF ~fromUnified.threw THEN fromUnified
     ELSE Outcome(FALSE, fromLegacy.prompts,
                  fromUnified.warnings \o <<Warning("unifiedFailed", "")>> \o fromLegacy.warnings)

loadPrompts(doc, files, language) ==
  LET fromUnified == loadPromptsFromUnified(doc, language)
  IN IF ~fromUnified.threw THEN fromUnified
     ELSE Caught(fromUnified, Warning("unifiedFailed", ""), loadPromptsLegacy(files, language))

\* A catalog cut off after the first prompt of the outcome.
CatalogOfFirstPrompt(outcome) ==
  GroupByCategory(IF outcome.prompts = <<>> THEN <<>> ELSE <<Head(outcome.prompts)>>)

\* The CategoryGroup a successful outcome resolves to.
Catalog(outcome) == GroupByCategory(outcome.prompts)

(***************************************************************************)
(* yaml-parser.ts: queries on a CategoryGroup.                             *)
(***************************************************************************)
RECURSIVE AllPromptsOf(_)
\* Object.values(groups).forEach(ps => allPrompts.push(...ps))
AllPromptsOf(groups) ==
  IF Len(groups) = 0 THEN <<>>
  ELSE Head(groups).prompts \o AllPromptsOf(Tail(groups))

NoPrompt == [id |-> "", category |-> "", prompt |-> "", purpose |-> ""]

\* The scan ends after the first category.
findPromptByIdInFirstCategory(groups, id) ==
  LET first == IF Len(groups) = 0 THEN <<>> ELSE Head(groups).prompts
  IN IF \E i \in 1..Len(first) : first[i].id = id
     THEN first[CHOOSE i \in 1..Len(first) :
                   first[i].id = id /\ \A j \in 1..(i - 1) : first[j].id # id]
     ELSE NoPrompt

\* The first prompt, in category order, whose id is the one asked for; NoPrompt is null.
findPromptById(groups, id) ==
  LET all == AllPromptsOf(groups)
  IN IF \E i \in 1..Len(all) : all[i].id = id
     THEN all[CHOOSE i \in 1..Len(all) :
                 all[i].id = id /\ \A j \in 1..(i - 1) : all[j].id # id]
     ELSE NoPrompt

(***************************************************************************)
(* The loader as a state machine: loadPrompts suspends at its two fetches; *)
(* what runs between them is synchronous.  Each normalizer can also be     *)
(* called on its own.                                                      *)
(***************************************************************************)
\* AVAILABLE_LANGUAGES
Languages == {"EN", "DE"}

NotRun == [by |-> "", language |-> "", outcome |-> Outcome(FALSE, <<>>, <<>>)]

Environments ==
  { [content |-> L,
     unified |-> UnifiedDocument(L, nameKind, kind),
     legacy |-> LegacyFiles(L, nameKind, present)] :
       L \in Contents, nameKind \in NameKinds, kind \in UnifiedKinds, present \in BOOLEAN }

(***************************************************************************)
(* JournalPromptsApp: the controller's fields are the variables of the     *)
(* same names.  A handler is computed on a record of the fields (View)     *)
(* and its result assigned to them (Becomes).                              *)
(***************************************************************************)
\* new URLSearchParams(window.location.search): a parameter that is absent is "".
NoSearch == [id |-> "", category |-> "", prompt |-> ""]

View ==
  [categoryGroups |-> categoryGroups, currentCategory |-> currentCategory,
   currentPrompt |-> currentPrompt, isPinned |-> isPinned,
   purposeVisible |-> purposeVisible,
   wasOpenedWithDeepLink |-> wasOpenedWithDeepLink, search |-> search]

Becomes(v) ==
  /\ categoryGroups' = v.categoryGroups
  /\ currentCategory' = v.currentCategory
  /\ currentPrompt' = v.currentPrompt
  /\ isPinned' = v.isPinned
  /\ purposeVisible' = v.purposeVisible
  /\ wasOpenedWithDeepLink' = v.wasOpenedWithDeepLink
  /\ search' = v.search

\* The fields as the class initializers leave them, on a page opened at `query`.
Constructed(query) ==
  [categoryGroups |-> <<>>, currentCategory |-> "", currentPrompt |-> NoPrompt,
   isPinned |-> FALSE, purposeVisible |-> FALSE, wasOpenedWithDeepLink |-> FALSE,
   search |-> query]

\* Object.keys(categoryGroups)
CategoryKeys(groups) == { groups[i].category : i \in 1..Len(groups) }

\* Properties every object literal inherits from Object.prototype.
ObjectPrototypeKeys ==
  {"constructor", "toString", "toLocaleString", "valueOf", "hasOwnProperty",
   "isPrototypeOf", "propertyIsEnumerable", "__proto__"}

\* categoryGroups[category]: a list of prompts, an inherited property, or undefined.
CategoryProperty(groups, category) ==
  IF category \in CategoryKeys(groups) THEN "own"
  ELSE IF category \in ObjectPrototypeKeys THEN "inherited"
  ELSE "absent"

PromptsIn(groups, category) ==
  groups[CHOOSE i \in 1..Len(groups) : groups[i].category = category].prompts

\* prompts[Math.floor(Math.random() * prompts.length)]: the values it can return.
getRandomPrompt(prompts) == { prompts[i] : i \in 1..Len(prompts) }

\* The values a random draw can take where a handler may or may not draw.
RandomDraws(prompts) == IF Len(prompts) = 0 THEN {NoPrompt} ELSE getRandomPrompt(prompts)

CategoryDraws(groups, category) ==
  IF category \in CategoryKeys(groups) THEN getRandomPrompt(PromptsIn(groups, category))
  ELSE {NoPrompt}

IsHexDigit(c) == c \in {"0", "1", "2", "3", "4", "5", "6", "7", "8", "9",
                        "A", "B", "C", "D", "E", "F", "a", "b", "c", "d", "e", "f"}

\* The character of an escape sequence %XX (the escapes of the model's alphabet).
PercentDecoded(hex) ==
  CASE hex = "20" -> " "
    [] hex = "25" -> "%"
    [] hex = "28" -> "("
    [] hex = "29" -> ")"
    [] hex \in {"2E", "2e"} -> "."
    [] OTHER -> "?"

RECURSIVE decodeURIComponent(_)
\* [threw, value]: a "%" not followed by two hex digits raises URIError.
decodeURIComponent(s) ==
  IF Len(s) = 0 THEN [threw |-> FALSE, value |-> ""]
  ELSE IF CharAt(s, 1) # "%"
  THEN LET rest == decodeURIComponent(SubSeq(s, 2, Len(s)))
       IN [threw |-> rest.threw, value |-> CharAt(s, 1) \o rest.value]
  ELSE IF Len(s) < 3 \/ ~IsHexDigit(CharAt(s, 2)) \/ ~IsHexDigit(CharAt(s, 3))
  THEN [threw |-> TRUE, value |-> ""]
  ELSE LET rest == decodeURIComponent(SubSeq(s, 4, Len(s)))
       IN [threw |-> rest.threw, value |-> PercentDecoded(SubSeq(s, 2, 3)) \o rest.value]

\* prompts.find(p => p.prompt.startsWith(decodedPrefix)); NoPrompt is undefined.
FindByPrefix(prompts, decodedPrefix) ==
  IF \E i \in 1..Len(prompts) : StartsWith(prompts[i].prompt, decodedPrefix)
  THEN prompts[CHOOSE i \in 1..Len(prompts) :
                 /\ StartsWith(prompts[i].prompt, decodedPrefix)
                 /\ \A j \in 1..(i - 1) : ~StartsWith(prompts[j].prompt, decodedPrefix)]
  ELSE NoPrompt

\* The address is left as it is.
updateUrlNotAtAll(v, prompt) == v

updateUrl(v, prompt) == [v EXCEPT !.search = [id |-> prompt.id, category |-> "", prompt |-> ""]]

\* The address keeps its query.
clearUrlNotAtAll(v) == v

clearUrl(v) == [v EXCEPT !.search = NoSearch]

\* Displaying a prompt always writes its id to the address.
displayPromptAndUpdateUrl(v, prompt) ==
  updateUrl([v EXCEPT !.currentPrompt = prompt, !.currentCategory = prompt.category], prompt)

\* Displaying a prompt pins its category.
displayPromptAndPin(v, prompt) ==
  LET shown == [v EXCEPT !.currentPrompt = prompt, !.currentCategory = prompt.category,
                         !.isPinned = TRUE]
  IN IF v.wasOpenedWithDeepLink THEN updateUrl(shown, prompt) ELSE shown

displayPrompt(v, prompt) ==
  LET shown == [v EXCEPT !.currentPrompt = prompt, !.currentCategory = prompt.category]
  IN IF v.wasOpenedWithDeepLink THEN updateUrl(shown, prompt) ELSE shown

setPinned(v, pinned) == [v EXCEPT !.isPinned = pinned]

togglePurpose(v) == [v EXCEPT !.purposeVisible = ~v.purposeVisible]

\* selectedPrompt is what getRandomPrompt returns for the category's prompts.
selectCategory(v, category, selectedPrompt) ==
  displayPrompt([v EXCEPT !.currentCategory = category], selectedPrompt)

\* The request leaves the display as it is.
KeepCurrentPrompt(v, randomPrompt) == v

\* randomPrompt is what getRandomPrompt returns for the prompts of all categories.
loadRandomPromptFromAnyCategory(v, randomPrompt) ==
  IF Len(AllPromptsOf(v.categoryGroups)) > 0
  THEN displayPrompt([v EXCEPT !.currentCategory = randomPrompt.category], randomPrompt)
  ELSE v

DeepLinkOutcome(threw, matched, path, v) ==
  [threw |-> threw, matched |-> matched, path |-> path, view |-> v]

\* The category-only fallback and the no-match exit of handleDeepLink.
DeepLinkByCategory(v, selectedPrompt) ==
  LET category == v.search.category
      property == CategoryProperty(v.categoryGroups, category)
      opened == [v EXCEPT !.wasOpenedWithDeepLink = TRUE]
  IN IF category # "" /\ property = "own"
     THEN DeepLinkOutcome(FALSE, TRUE, "category",
            setPinned(selectCategory(opened, category, selectedPrompt), TRUE))
     ELSE IF category # "" /\ property = "inherited"
     THEN \* getRandomPrompt of a non-list yields undefined: displayPrompt(undefined) raises TypeError
          DeepLinkOutcome(TRUE, FALSE, "threw",
            [opened EXCEPT !.currentCategory = category, !.currentPrompt = NoPrompt])
     ELSE DeepLinkOutcome(FALSE, FALSE, "none",
            IF v.search.id # "" \/ category # "" THEN clearUrl(v) ELSE v)

\* [threw, matched, path, view]: `matched` is the value returned, `path` the branch taken.
handleDeepLink(v, selectedPrompt) ==
  LET promptId == v.search.id
      category == v.search.category
      promptPrefix == v.search.prompt
      property == CategoryProperty(v.categoryGroups, category)
      byId == findPromptById(v.categoryGroups, promptId)
      decodedPrefix == decodeURIComponent(promptPrefix)
      matchingPrompt ==
        IF property = "own" /\ ~decodedPrefix.threw
        THEN FindByPrefix(PromptsIn(v.categoryGroups, category), decodedPrefix.value)
        ELSE NoPrompt
  IN IF promptId # "" /\ byId # NoPrompt
     THEN DeepLinkOutcome(FALSE, TRUE, "id",
            displayPrompt([v EXCEPT !.wasOpenedWithDeepLink = TRUE,
                                    !.currentCategory = byId.category], byId))
     ELSE IF category # "" /\ property # "absent" /\ promptPrefix # ""
     THEN IF decodedPrefix.threw \/ property = "inherited"
          THEN \* URIError of decodeURIComponent, or TypeError: prompts.find is not a function
               DeepLinkOutcome(TRUE, FALSE, "threw", v)
          ELSE IF matchingPrompt # NoPrompt
          THEN DeepLinkOutcome(FALSE, TRUE, "prefix",
                 displayPrompt([v EXCEPT !.wasOpenedWithDeepLink = TRUE,
                                         !.currentCategory = category], matchingPrompt))
          ELSE DeepLinkByCategory(v, selectedPrompt)
     ELSE DeepLinkByCategory(v, selectedPrompt)

\* constants.ts: DEFAULTS and AVAILABLE_THEMES (AVAILABLE_LANGUAGES is Languages).
DEFAULTS == [LANGUAGE |-> "EN", THEME |-> "light"]

AVAILABLE_THEMES == {"light", "dark"}

\* SettingsManager.getCurrentLanguage() where localStorage holds stored ("" is no item)
\* and getItem raises an error when throws.
getCurrentLanguage(stored, throws) ==
  IF ~throws /\ stored # "" /\ stored \in Languages THEN stored ELSE DEFAULTS.LANGUAGE

\* The stored value is returned without a look at AVAILABLE_THEMES.
getCurrentThemeUnchecked(stored, throws) ==
  IF ~throws /\ stored # "" THEN stored ELSE DEFAULTS.THEME

\* SettingsManager.getCurrentTheme()
getCurrentTheme(stored, throws) ==
  IF ~throws /\ stored # "" /\ stored \in AVAILABLE_THEMES THEN stored ELSE DEFAULTS.THEME

\* The loop never asks for another draw.
SamePromptNeverChecked(prompts, drawn, shown) == FALSE

\* prompts.length > 1 && this.currentPrompt, and the condition of the while loop.
SamePromptAgain(prompts, drawn, shown) ==
  /\ Len(prompts) > 1
  /\ shown # NoPrompt
  /\ drawn.prompt = shown.prompt

\* switchLanguage after its awaits: restore the prompt that was viewed when it started.
RestoreAfterSwitch(v, call, randomPrompt) ==
  IF call.currentPromptId # ""
  THEN LET prompt == findPromptById(v.categoryGroups, call.currentPromptId)
       IN IF prompt # NoPrompt
          THEN LET shown == displayPrompt([v EXCEPT !.currentCategory = prompt.category], prompt)
               IN IF call.wasShowingPurpose THEN togglePurpose(shown) ELSE shown
          ELSE loadRandomPromptFromAnyCategory(v, randomPrompt)
  ELSE v

\* The handler that ran last and the branch it took; for a new-prompt request the
\* prompt on display when it started, for a language switch the prompt on display when
\* its catalog was assigned, for init() the query string of the page.
NoSnapshot == [currentPromptId |-> "", wasShowingPurpose |-> FALSE]

Ran(op, path, before, query) ==
  [op |-> op, path |-> path, before |-> before, query |-> query, snapshot |-> NoSnapshot]

\* A switchLanguage call that ran to its end, with what it stored when it started
\* (const currentPromptId, const wasShowingPurpose).
RanSwitch(path, before, call) ==
  [Ran("switchLanguage", path, before, NoSearch) EXCEPT
     !.snapshot = [currentPromptId |-> call.currentPromptId,
                   wasShowingPurpose |-> call.wasShowingPurpose]]

\* A handler no property refers to.
Other == Ran("", "", NoPrompt, NoSearch)

RemoveAt(s, i) == SubSeq(s, 1, i - 1) \o SubSeq(s, i + 1, Len(s))

(***************************************************************************)
(* The page's environment: the documents the server holds, the address the *)
(* page is opened at and the language stored by an earlier visit.          *)
(***************************************************************************)
\* Two prompts of one category whose texts are the same in either language.
RepeatedText ==
  << [cat |-> "B", seq |-> 1, kind |-> "same"], [cat |-> "B", seq |-> 11, kind |-> "same"] >>

\* Prompts B.1 and B.11 of one category, C.1 of another; B.1 and B.11 also with a
\* German translation only; B.1 and B.11 with the same text.
AppContents ==
  { L \in Contents :
      L \in { [i \in 1..Len(s) |-> LogicalPromptAt(s[i])] :
                s \in {<<>>, <<1>>, <<3>>, <<1, 6>>, <<1, 8>>, <<1, 16>>, <<1, 6, 16>>} } }
    \cup { L \in {RepeatedText} : Len(L) <= MaxPrompts }

\* The unified file in the Clean shape, or no unified file and a legacy file for
\* English only, or no file that loads at all (no unified file, or one of another
\* shape, and no legacy file).
AppEnvironments ==
  { [content |-> L,
     unified |-> UnifiedDocument(L, "both", e.kind),
     legacy |-> [f \in LegacyLanguages |-> LegacyFiles(L, "both", f \in e.files)[f]]] :
       L \in AppContents,
       e \in { [kind |-> "clean", files |-> {}],
               [kind |-> "unavailable", files |-> {"EN"}],
               [kind |-> "unavailable", files |-> {}],
               [kind |-> "other", files |-> {}] } }

\* The query strings the page is opened with (values as URLSearchParams returns them).
InitialSearches ==
  { NoSearch,
    [id |-> "B1", category |-> "", prompt |-> ""],
    [id |-> "B11", category |-> "Creativity", prompt |-> "Describe%20C"],
    [id |-> "ZZ9", category |-> "", prompt |-> ""],
    [id |-> "ZZ9", category |-> "Biography", prompt |-> "Describe%20B%2E1"],
    [id |-> "", category |-> "Biography", prompt |-> "Describe B.11"],
    [id |-> "", category |-> "Biography", prompt |-> "Zzz"],
    [id |-> "", category |-> "Biografie", prompt |-> ""],
    [id |-> "", category |-> "Biography", prompt |-> ""],
    [id |-> "", category |-> "Nope", prompt |-> "100%"],
    [id |-> "", category |-> "Biography", prompt |-> "100%"],
    [id |-> "", category |-> "constructor", prompt |-> ""],
    [id |-> "", category |-> "", prompt |-> "Describe"] }

StoredLanguages == {"", "DE"}

LoaderIdle ==
  /\ loads = <<>>
  /\ reqLang = ""
  /\ lpc = "idle"
  /\ attempts = <<>>
  /\ logged = <<>>
  /\ returned = <<>>
  /\ produced = NotRun

\* No call of TranslationManager.initialize has ended.
NotInitialized == [language |-> "", failed |-> FALSE, rejected |-> FALSE]

\* No set call of SettingsManager has run.
NotSet == [op |-> "", value |-> "", threw |-> FALSE, before |-> ""]

\* TranslationManager as the module is evaluated, with every translation file in place,
\* and a browser with nothing stored for the theme.
ServicesIdle ==
  /\ translationFiles = { ToLowerCase(l) : l \in Languages }
  /\ translationLanguage = "EN"
  /\ initializing = <<>>
  /\ initialized = NotInitialized
  /\ storedTheme = ""
  /\ documentLang = "en"
  /\ dataTheme = ""
  /\ storageThrows = FALSE
  /\ settingsCall = NotSet

\* The app before a page is opened (the state of the app under LoaderSpec).
AppNotOpened ==
  /\ categoryGroups = <<>>
  /\ currentCategory = ""
  /\ currentPrompt = NoPrompt
  /\ currentLanguage = "EN"
  /\ isPinned = FALSE
  /\ purposeVisible = FALSE
  /\ wasOpenedWithDeepLink = FALSE
  /\ search = NoSearch
  /\ storedLanguage = ""
  /\ translations = {}
  /\ phase = "closed"
  /\ switches = <<>>
  /\ newPrompt = NoPrompt
  /\ last = Other

(***************************************************************************)
(* The loader's operations.                                                *)
(***************************************************************************)
LoaderInit ==
  /\ \E env \in Environments :
       /\ content = env.content
       /\ unified = env.unified
       /\ legacy = env.legacy
  /\ LoaderIdle
  /\ ServicesIdle
  /\ AppNotOpened

\* loadPrompts(language) is called: loadPromptsFromUnified starts its fetch.
CallLoadPrompts ==
  /\ lpc \in {"idle", "resolved", "rejected"}
  /\ \E language \in Languages : reqLang' = language
  /\ lpc' = "fetchingUnified"
  /\ attempts' = <<>>
  /\ logged' = <<>>
  /\ returned' = <<>>
  /\ produced' = NotRun
  /\ UNCHANGED envVars
  /\ UNCHANGED appVars

\* The fetch of the unified file resolves: Clean, then on its error Nested, run
\* synchronously; on an error of both (or of the fetch) loadPromptsLegacy starts its fetch.
UnifiedResponse ==
  /\ lpc = "fetchingUnified"
  /\ LET clean == loadPromptsFromCleanStructure(unified, reqLang)
         nested == loadPromptsFromNestedStructure(unified, reqLang)
         fromUnified == loadPromptsFromUnified(unified, reqLang)
     IN /\ attempts' = IF ~unified.ok THEN <<>>
                       ELSE IF ~clean.threw THEN <<"clean">>
                       ELSE <<"clean", "nested">>
        /\ IF fromUnified.threw
           THEN /\ lpc' = "fetchingLegacy"
                /\ logged' = fromUnified.warnings \o <<Warning("unifiedFailed", "")>>
                /\ returned' = <<>>
           ELSE /\ lpc' = "resolved"
                /\ logged' = fromUnified.warnings
                /\ returned' = Catalog(fromUnified)
  /\ UNCHANGED <<reqLang, produced>>
  /\ UNCHANGED envVars
  /\ UNCHANGED appVars

\* The fetch of the legacy file resolves: the Legacy normalizer runs; its error
\* is logged and thrown to the caller.
LegacyResponse ==
  /\ lpc = "fetchingLegacy"
  /\ LET fromLegacy == loadPromptsLegacy(legacy, reqLang)
     IN /\ attempts' = Append(attempts, "legacy")
        /\ logged' = logged \o fromLegacy.warnings
        /\ IF fromLegacy.threw
           THEN lpc' = "rejected" /\ returned' = <<>>
           ELSE lpc' = "resolved" /\ returned' = Catalog(fromLegacy)
  /\ UNCHANGED <<reqLang, produced>>
  /\ UNCHANGED envVars
  /\ UNCHANGED appVars

\* One normalizer called on the documents directly.
CallCleanNormalizer ==
  /\ lpc = "idle"
  /\ unified.ok
  /\ \E language \in Languages :
       produced' = [by |-> "clean", language |-> language,
                    outcome |-> loadPromptsFromCleanStructure(unified, language)]
  /\ UNCHANGED <<reqLang, lpc, attempts, logged, returned>>
  /\ UNCHANGED envVars
  /\ UNCHANGED appVars

CallNestedNormalizer ==
  /\ lpc = "idle"
  /\ unified.ok
  /\ \E language \in Languages :
       produced' = [by |-> "nested", language |-> language,
                    outcome |-> loadPromptsFromNestedStructure(unified, language)]
  /\ UNCHANGED <<reqLang, lpc, attempts, logged, returned>>
  /\ UNCHANGED envVars
  /\ UNCHANGED appVars

CallLegacyNormalizer ==
  /\ lpc = "idle"
  /\ \E language \in Languages :
       produced' = [by |-> "legacy", language |-> language,
                    outcome |-> loadPromptsLegacy(legacy, language)]
  /\ UNCHANGED <<reqLang, lpc, attempts, logged, returned>>
  /\ UNCHANGED envVars
  /\ UNCHANGED appVars

LoaderNext ==
  \/ CallLoadPrompts
  \/ UnifiedResponse
  \/ LegacyResponse
  \/ CallCleanNormalizer
  \/ CallNestedNormalizer
  \/ CallLegacyNormalizer

LoaderSpec == LoaderInit /\ [][LoaderNext]_vars

(***************************************************************************)
(* Catalogs built one after the other from an unchanged source.            *)
(***************************************************************************)
\* The language codes loadPrompts is called with: the available ones, in either letter case.
LanguageArguments == Languages \cup { ToLowerCase(l) : l \in Languages }

\* await loadPrompts(language), run to its end: the catalog built, or the error thrown.
LoadCatalog ==
  /\ Len(loads) < MaxLoads
  /\ \E language \in LanguageArguments :
       LET outcome == loadPrompts(unified, legacy, language)
       IN loads' = Append(loads,
                     [language |-> language, threw |-> outcome.threw,
                      catalog |-> IF outcome.threw THEN <<>> ELSE Catalog(outcome)])
  /\ UNCHANGED sourceVars
  /\ UNCHANGED <<translationVars, settingsVars>>
  /\ UNCHANGED loaderVars
  /\ UNCHANGED appVars

RoundTripNext == LoadCatalog

RoundTripSpec == LoaderInit /\ [][RoundTripNext]_vars

(***************************************************************************)
(* The app's operations.                                                   *)
(***************************************************************************)
\* new JournalPromptsApp(): the fields hold their initializers and init() is pending.
Init ==
  /\ \E env \in AppEnvironments :
       /\ content = env.content
       /\ unified = env.unified
       /\ legacy = env.legacy
  /\ LoaderIdle
  /\ ServicesIdle
  /\ search \in InitialSearches
  /\ storedLanguage \in StoredLanguages
  /\ categoryGroups = Constructed(search).categoryGroups
  /\ currentCategory = Constructed(search).currentCategory
  /\ currentPrompt = Constructed(search).currentPrompt
  /\ currentLanguage = "EN"
  /\ isPinned = Constructed(search).isPinned
  /\ purposeVisible = Constructed(search).purposeVisible
  /\ wasOpenedWithDeepLink = Constructed(search).wasOpenedWithDeepLink
  /\ translations = {}
  /\ phase = "loading"
  /\ switches = <<>>
  /\ newPrompt = NoPrompt
  /\ last = Other

\* init() runs to its end: no listener is attached before its awaits are over.
InitApp ==
  /\ phase = "loading"
  /\ LET language == getCurrentLanguage(storedLanguage, storageThrows)
         outcome == loadPrompts(unified, legacy, language)
         loaded == [View EXCEPT !.categoryGroups = Catalog(outcome)]
     IN /\ ~outcome.threw
        /\ currentLanguage' = language
        /\ translations' = {language}
        /\ \E selectedPrompt \in CategoryDraws(loaded.categoryGroups, search.category),
              randomPrompt \in RandomDraws(AllPromptsOf(loaded.categoryGroups)) :
             LET link == handleDeepLink(loaded, selectedPrompt)
             IN IF Len(loaded.categoryGroups) = 0
                THEN /\ Becomes(loaded)
                     /\ last' = Ran("init", "empty", NoPrompt, search)
                ELSE /\ ~link.threw
                     /\ Becomes(IF link.matched THEN link.view
                                ELSE loadRandomPromptFromAnyCategory(link.view, randomPrompt))
                     /\ last' = Ran("init", link.path, NoPrompt, search)
  /\ phase' = "ready"
  /\ UNCHANGED <<storedLanguage, switches, newPrompt>>
  /\ UNCHANGED loaderVars
  /\ UNCHANGED envVars

\* init() ends in its catch block: loadPrompts rejected or handleDeepLink raised an
\* error; showError replaces the page body.
InitFails ==
  /\ phase = "loading"
  /\ LET language == getCurrentLanguage(storedLanguage, storageThrows)
         outcome == loadPrompts(unified, legacy, language)
         loaded == [View EXCEPT !.categoryGroups = Catalog(outcome)]
         link == handleDeepLink(loaded, NoPrompt)
     IN /\ currentLanguage' = language
        /\ translations' = {language}
        /\ IF outcome.threw
           THEN /\ Becomes(View)
                /\ last' = Ran("initFailed", "load", NoPrompt, search)
           ELSE /\ Len(loaded.categoryGroups) > 0
                /\ link.threw
                /\ Becomes(link.view)
                /\ last' = Ran("initFailed", "deepLink", NoPrompt, search)
  /\ phase' = "error"
  /\ UNCHANGED <<storedLanguage, switches, newPrompt>>
  /\ UNCHANGED loaderVars
  /\ UNCHANGED envVars

\* The category select changes to one of its options.
OnCategoryChange ==
  /\ phase = "ready"
  /\ \E selectedCategory \in CategoryKeys(categoryGroups) :
       \E selectedPrompt \in getRandomPrompt(PromptsIn(categoryGroups, selectedCategory)) :
         Becomes(setPinned(selectCategory(View, selectedCategory, selectedPrompt), TRUE))
  /\ last' = Other
  /\ UNCHANGED <<currentLanguage, storedLanguage, translations, phase, switches, newPrompt>>
  /\ UNCHANGED loaderVars
  /\ UNCHANGED envVars

\* selectNewPrompt up to the first draw of its pinned branch, or to its end.
SelectNewPrompt ==
  /\ phase = "ready"
  /\ LET cleared == clearUrl([View EXCEPT !.wasOpenedWithDeepLink = FALSE])
     IN IF isPinned /\ currentCategory # ""
        THEN IF currentCategory \in CategoryKeys(categoryGroups)
             THEN /\ newPrompt' \in getRandomPrompt(PromptsIn(categoryGroups, currentCategory))
                  /\ phase' = "selectingNewPrompt"
                  /\ Becomes(cleared)
                  /\ last' = Ran("selectNewPrompt", "sampling", currentPrompt, NoSearch)
             ELSE \* getRandomPrompt(undefined) raises TypeError: the handler ends here
                  /\ Becomes(cleared)
                  /\ last' = Ran("selectNewPrompt", "threw", currentPrompt, NoSearch)
                  /\ UNCHANGED <<newPrompt, phase>>
        ELSE /\ \E randomPrompt \in RandomDraws(AllPromptsOf(categoryGroups)) :
                  Becomes(loadRandomPromptFromAnyCategory(cleared, randomPrompt))
             /\ last' = Ran("selectNewPrompt", "any", currentPrompt, NoSearch)
             /\ UNCHANGED <<newPrompt, phase>>
  /\ UNCHANGED <<currentLanguage, storedLanguage, translations, switches>>
  /\ UNCHANGED loaderVars
  /\ UNCHANGED envVars

\* One iteration of the while loop: the draw equals the prompt on display.
ResampleNewPrompt ==
  /\ phase = "selectingNewPrompt"
  /\ SamePromptAgain(PromptsIn(categoryGroups, currentCategory), newPrompt, currentPrompt)
  /\ newPrompt' \in getRandomPrompt(PromptsIn(categoryGroups, currentCategory))
  /\ UNCHANGED <<categoryGroups, currentCategory, currentPrompt, currentLanguage, isPinned,
                 purposeVisible, wasOpenedWithDeepLink, search, storedLanguage,
                 translations, phase, switches, last>>
  /\ UNCHANGED loaderVars
  /\ UNCHANGED envVars

\* The loop is left (or not entered): the draw is displayed.
DisplayNewPrompt ==
  /\ phase = "selectingNewPrompt"
  /\ ~SamePromptAgain(PromptsIn(categoryGroups, currentCategory), newPrompt, currentPrompt)
  /\ Becomes(displayPrompt(View, newPrompt))
  /\ newPrompt' = NoPrompt
  /\ phase' = "ready"
  /\ last' = Ran("selectNewPrompt", "pinned", last.before, NoSearch)
  /\ UNCHANGED <<currentLanguage, storedLanguage, translations, switches>>
  /\ UNCHANGED loaderVars
  /\ UNCHANGED envVars

TogglePin ==
  /\ phase = "ready"
  /\ Becomes(setPinned(View, ~isPinned))
  /\ last' = Other
  /\ UNCHANGED <<currentLanguage, storedLanguage, translations, phase, switches, newPrompt>>
  /\ UNCHANGED loaderVars
  /\ UNCHANGED envVars

TogglePurpose ==
  /\ phase = "ready"
  /\ Becomes(togglePurpose(View))
  /\ last' = Other
  /\ UNCHANGED <<currentLanguage, storedLanguage, translations, phase, switches, newPrompt>>
  /\ UNCHANGED loaderVars
  /\ UNCHANGED envVars

\* copyCurrentLink (and fallbackCopyLink): the address gets the id of the prompt on
\* display unless the page was opened with a deep link.
CopyCurrentLink ==
  /\ phase = "ready"
  /\ Becomes(IF ~wasOpenedWithDeepLink /\ currentPrompt # NoPrompt
             THEN updateUrl(View, currentPrompt) ELSE View)
  /\ last' = Ran("copyCurrentLink", "", NoPrompt, NoSearch)
  /\ UNCHANGED <<currentLanguage, storedLanguage, translations, phase, switches, newPrompt>>
  /\ UNCHANGED loaderVars
  /\ UNCHANGED envVars

\* A click on the button of the other language: switchLanguage up to its first
\* await that suspends (the import of the translations, or the fetch of loadPrompts
\* when the translations are cached).
SwitchLanguage ==
  /\ phase = "ready"
  /\ Len(switches) < MaxInFlight
  /\ \E newLanguage \in Languages \ {currentLanguage} :
       /\ storedLanguage' = newLanguage
       /\ currentLanguage' = newLanguage
       /\ switches' =
            Append([i \in 1..Len(switches) |-> [switches[i] EXCEPT !.overlapped = TRUE]],
                   [stage |-> IF newLanguage \in translations THEN "prompts" ELSE "translations",
                    language |-> newLanguage,
                    currentPromptId |-> currentPrompt.id,
                    wasShowingPurpose |-> purposeVisible,
                    overlapped |-> switches # <<>>])
  /\ last' = Other
  /\ UNCHANGED <<categoryGroups, currentCategory, currentPrompt, isPinned, purposeVisible,
                 wasOpenedWithDeepLink, search, translations, phase, newPrompt>>
  /\ UNCHANGED loaderVars
  /\ UNCHANGED envVars

\* TranslationManager.initialize resolves: loadAndDisplayCategories calls
\* loadPrompts(this.currentLanguage).
TranslationsLoaded ==
  /\ phase = "ready"
  /\ \E i \in 1..Len(switches) :
       /\ switches[i].stage = "translations"
       /\ translations' = translations \cup {switches[i].language}
       /\ switches' = [switches EXCEPT ![i].stage = "prompts", ![i].language = currentLanguage]
  /\ last' = Other
  /\ UNCHANGED <<categoryGroups, currentCategory, currentPrompt, currentLanguage, isPinned,
                 purposeVisible, wasOpenedWithDeepLink, search, storedLanguage, phase,
                 newPrompt>>
  /\ UNCHANGED loaderVars
  /\ UNCHANGED envVars

\* loadPrompts of a switchLanguage call resolves: the catalog is assigned and the
\* call runs to its end.
PromptsLoaded ==
  /\ phase = "ready"
  /\ \E i \in 1..Len(switches) :
       LET call == switches[i]
           outcome == loadPrompts(unified, legacy, call.language)
           loaded == [View EXCEPT !.categoryGroups = Catalog(outcome)]
       IN /\ call.stage = "prompts"
          /\ ~outcome.threw
          /\ \E randomPrompt \in RandomDraws(AllPromptsOf(loaded.categoryGroups)) :
               Becomes(RestoreAfterSwitch(loaded, call, randomPrompt))
          /\ switches' = RemoveAt(switches, i)
          /\ last' = RanSwitch(IF call.overlapped THEN "overlapped" ELSE "alone",
                             currentPrompt, call)
  /\ UNCHANGED <<currentLanguage, storedLanguage, translations, phase, newPrompt>>
  /\ UNCHANGED loaderVars
  /\ UNCHANGED envVars

\* loadPrompts of a switchLanguage call rejects: window.location.reload() opens the
\* page again at the current address.
PromptsFailed ==
  /\ phase = "ready"
  /\ \E i \in 1..Len(switches) :
       /\ switches[i].stage = "prompts"
       /\ loadPrompts(unified, legacy, switches[i].language).threw
  /\ Becomes(Constructed(search))
  /\ currentLanguage' = "EN"
  /\ translations' = {}
  /\ phase' = "loading"
  /\ switches' = <<>>
  /\ newPrompt' = NoPrompt
  /\ last' = Ran("switchLanguage", "failed", NoPrompt, NoSearch)
  /\ UNCHANGED storedLanguage
  /\ UNCHANGED loaderVars
  /\ UNCHANGED envVars

Next ==
  \/ InitApp
  \/ InitFails
  \/ OnCategoryChange
  \/ SelectNewPrompt
  \/ ResampleNewPrompt
  \/ DisplayNewPrompt
  \/ TogglePin
  \/ TogglePurpose
  \/ CopyCurrentLink
  \/ SwitchLanguage
  \/ TranslationsLoaded
  \/ PromptsLoaded
  \/ PromptsFailed

Spec == Init /\ [][Next]_vars

\* A draw of the while loop that returns a prompt with another text.
DrawOtherText == ResampleNewPrompt /\ newPrompt'.prompt # currentPrompt.prompt

\* The app with a running while loop going on and with fair random draws: a draw
\* that is possible again and again is eventually made.
FairSpec ==
  /\ Spec
  /\ WF_vars(ResampleNewPrompt)
  /\ WF_vars(DisplayNewPrompt)
  /\ SF_vars(DrawOtherText)

(***************************************************************************)
(* TranslationManager.                                                     *)
(***************************************************************************)
\* The language codes initialize and setLanguage are called with: the available ones and
\* one that has no translation file.
TranslationArguments == Languages \cup {"FR"}

\* The names of the translation files the build ships.
TranslationFileNames == { ToLowerCase(l) : l \in Languages }

\* The value of a key that is found: the text of the key in the file it was read from.
TextOf(file, key) == [from |-> file, key |-> key]

\* The key itself, as get returns it when it resolves nothing.
RawKey(key) == [from |-> "", key |-> key]

\* The default export of ./translations/<file>.json in the shape of the interface
\* Translations (two of its groups): an object carries members, a string its text.
TranslationModule(file) ==
  [object |-> TRUE,
   members |->
     [group \in {"page", "buttons"} |->
        [object |-> TRUE,
         members |->
           IF group = "page"
           THEN [name \in {"title"} |-> [object |-> FALSE, text |-> TextOf(file, <<group, name>>)]]
           ELSE [name \in {"newPrompt", "copyLink"} |->
                   [object |-> FALSE, text |-> TextOf(file, <<group, name>>)]]]]]

\* The keys get is called with, as key.split('.') yields them: two texts, a group, a key
\* missing from its group, a key below a text and a key of an unknown group.
TranslationKeys ==
  { <<"page", "title">>, <<"buttons", "newPrompt">>, <<"buttons">>, <<"buttons", "missing">>,
    <<"page", "title", "long">>, <<"footer", "note">> }

\* The keys every translation file gives a text for.
TextKeys == { <<"page", "title">>, <<"buttons", "newPrompt">>, <<"buttons", "copyLink">> }

\* The loop of get over the parts of the key, and its last line.
RECURSIVE Navigate(_, _, _)
Navigate(value, keys, key) ==
  IF keys = <<>>
  THEN IF value.object THEN RawKey(key) ELSE value.text
  ELSE IF value.object /\ Head(keys) \in DOMAIN value.members
       THEN Navigate(value.members[Head(keys)], Tail(keys), key)
       ELSE RawKey(key)

\* TranslationManager.get(key) where the languages of loaded are in the map and language
\* is the current one.
get(loaded, language, key) ==
  IF language \notin loaded
  THEN RawKey(key)
  ELSE Navigate(TranslationModule(ToLowerCase(language)), key, key)

\* The initialize call for language ended: failed says that the import of its file was
\* rejected, rejected that the call itself ended in a rejection.
Ended(language, failed, rejected) ==
  [language |-> language, failed |-> failed, rejected |-> rejected]

\* catch: the fallback is started when the language is not English and English is not in
\* the map.
FallbackStarts(loaded, language) == language # "EN" /\ "EN" \notin loaded

\* Everything TranslationManager leaves alone.
untranslated == <<sourceVars, loads, settingsVars, loaderVars, pageVars, storedLanguage>>

\* A server that holds no document of prompts: TranslationManager and SettingsManager
\* fetch none.
NoDocuments ==
  /\ content = <<>>
  /\ unified = UnifiedDocument(<<>>, "both", "unavailable")
  /\ legacy = LegacyFiles(<<>>, "both", FALSE)

\* The translation files a browser can import: any of those the build ships.
TranslationInit ==
  /\ NoDocuments
  /\ LoaderIdle
  /\ AppNotOpened
  /\ translationFiles \in SUBSET TranslationFileNames
  /\ translationLanguage = "EN"
  /\ initializing = <<>>
  /\ initialized = NotInitialized
  /\ storedTheme = ""
  /\ documentLang = "en"
  /\ dataTheme = ""
  /\ storageThrows = FALSE
  /\ settingsCall = NotSet

\* initialize(language) up to its import, or to its end when the language is in the map.
Initialize ==
  /\ \E language \in TranslationArguments :
       /\ translationLanguage' = language
       /\ IF language \in translations
          THEN /\ initializing' = initializing
               /\ initialized' = Ended(language, FALSE, FALSE)
          ELSE /\ Len(initializing) < MaxInFlight
               /\ initializing' = Append(initializing, [language |-> language, awaits |-> "module"])
               /\ initialized' = NotInitialized
  /\ UNCHANGED <<translations, translationFiles>>
  /\ UNCHANGED untranslated

\* The import of the language's file resolves: the module is put into the map.
ModuleImported ==
  /\ \E i \in 1..Len(initializing) :
       LET call == initializing[i]
       IN /\ call.awaits = "module"
          /\ ToLowerCase(call.language) \in translationFiles
          /\ translations' = translations \cup {call.language}
          /\ initializing' = RemoveAt(initializing, i)
          /\ initialized' = Ended(call.language, FALSE, FALSE)
  /\ UNCHANGED <<translationLanguage, translationFiles>>
  /\ UNCHANGED untranslated

\* The import of the language's file is rejected: the catch block warns and either
\* starts the import of en.json or ends the call.
ModuleFailed ==
  /\ \E i \in 1..Len(initializing) :
       LET call == initializing[i]
       IN /\ call.awaits = "module"
          /\ ToLowerCase(call.language) \notin translationFiles
          /\ IF FallbackStarts(translations, call.language)
             THEN /\ initializing' = [initializing EXCEPT ![i].awaits = "fallback"]
                  /\ initialized' = NotInitialized
             ELSE /\ initializing' = RemoveAt(initializing, i)
                  /\ initialized' = Ended(call.language, TRUE, FALSE)
  /\ UNCHANGED <<translations, translationLanguage, translationFiles>>
  /\ UNCHANGED untranslated

\* The import of en.json resolves: English is put into the map and becomes current.
FallbackImported ==
  /\ \E i \in 1..Len(initializing) :
       LET call == initializing[i]
       IN /\ call.awaits = "fallback"
          /\ "en" \in translationFiles
          /\ translations' = translations \cup {"EN"}
          /\ translationLanguage' = "EN"
          /\ initializing' = RemoveAt(initializing, i)
          /\ initialized' = Ended(call.language, TRUE, FALSE)
  /\ UNCHANGED translationFiles
  /\ UNCHANGED untranslated

\* The import of en.json is rejected inside the catch block: initialize rejects.
FallbackFailed ==
  /\ \E i \in 1..Len(initializing) :
       LET call == initializing[i]
       IN /\ call.awaits = "fallback"
          /\ "en" \notin translationFiles
          /\ initializing' = RemoveAt(initializing, i)
          /\ initialized' = Ended(call.language, TRUE, TRUE)
  /\ UNCHANGED <<translations, translationLanguage, translationFiles>>
  /\ UNCHANGED untranslated

\* TranslationManager.setLanguage(language).
SetTranslationLanguage ==
  /\ \E language \in TranslationArguments :
       translationLanguage' = IF language \in translations THEN language ELSE translationLanguage
  /\ initialized' = NotInitialized
  /\ UNCHANGED <<translations, translationFiles, initializing>>
  /\ UNCHANGED untranslated

TranslationNext ==
  \/ Initialize
  \/ ModuleImported
  \/ ModuleFailed
  \/ FallbackImported
  \/ FallbackFailed
  \/ SetTranslationLanguage

TranslationSpec == TranslationInit /\ [][TranslationNext]_vars

(***************************************************************************)
(* SettingsManager.                                                        *)
(***************************************************************************)
\* The values setLanguage is called with and localStorage may hold for the language: the
\* available ones and one that is not supported.
LanguageValues == Languages \cup {"FR"}

\* The values setTheme is called with and localStorage may hold for the theme.
ThemeValues == AVAILABLE_THEMES \cup {"sepia"}

\* The set call that ran: its argument, whether it raised an error, and the stored
\* value before it.
SetCall(op, value, threw, before) ==
  [op |-> op, value |-> value, threw |-> threw, before |-> before]

\* Everything SettingsManager leaves alone.
unsettled == <<sourceVars, loads, translationVars, loaderVars, pageVars, translations>>

\* A browser whose localStorage works and holds anything, or nothing (""), for the two
\* items; the attributes of the html element are those of index.html.
SettingsInit ==
  /\ NoDocuments
  /\ LoaderIdle
  /\ categoryGroups = <<>>
  /\ currentCategory = ""
  /\ currentPrompt = NoPrompt
  /\ currentLanguage = "EN"
  /\ isPinned = FALSE
  /\ purposeVisible = FALSE
  /\ wasOpenedWithDeepLink = FALSE
  /\ search = NoSearch
  /\ translations = {}
  /\ phase = "closed"
  /\ switches = <<>>
  /\ newPrompt = NoPrompt
  /\ last = Other
  /\ translationFiles = TranslationFileNames
  /\ translationLanguage = "EN"
  /\ initializing = <<>>
  /\ initialized = NotInitialized
  /\ storedLanguage \in LanguageValues \cup {""}
  /\ storedTheme \in ThemeValues \cup {""}
  /\ documentLang = "en"
  /\ dataTheme = ""
  /\ storageThrows = FALSE
  /\ settingsCall = NotSet

\* SettingsManager.setLanguage(language).
SetLanguage ==
  /\ \E language \in LanguageValues :
       IF language \notin Languages
       THEN /\ settingsCall' = SetCall("setLanguage", language, TRUE, storedLanguage)
            /\ UNCHANGED <<storedLanguage, documentLang>>
       ELSE /\ settingsCall' = SetCall("setLanguage", language, FALSE, storedLanguage)
            /\ IF storageThrows
               THEN UNCHANGED <<storedLanguage, documentLang>>
               ELSE /\ storedLanguage' = language
                    /\ documentLang' = ToLowerCase(language)
  /\ UNCHANGED <<storedTheme, dataTheme, storageThrows>>
  /\ UNCHANGED unsettled

\* SettingsManager.setTheme(theme).
SetTheme ==
  /\ \E theme \in ThemeValues :
       IF theme \notin AVAILABLE_THEMES
       THEN /\ settingsCall' = SetCall("setTheme", theme, TRUE, storedTheme)
            /\ UNCHANGED <<storedTheme, dataTheme>>
       ELSE /\ settingsCall' = SetCall("setTheme", theme, FALSE, storedTheme)
            /\ IF storageThrows
               THEN UNCHANGED <<storedTheme, dataTheme>>
               ELSE /\ storedTheme' = theme
                    /\ dataTheme' = IF theme = "dark" THEN "dark" ELSE ""
  /\ UNCHANGED <<storedLanguage, documentLang, storageThrows>>
  /\ UNCHANGED unsettled

\* localStorage starts to raise errors (access denied, quota exceeded).
StorageFails ==
  /\ ~storageThrows
  /\ storageThrows' = TRUE
  /\ UNCHANGED <<storedLanguage, storedTheme, documentLang, dataTheme, settingsCall>>
  /\ UNCHANGED unsettled

\* localStorage works again.
StorageRecovers ==
  /\ storageThrows
  /\ storageThrows' = FALSE
  /\ UNCHANGED <<storedLanguage, storedTheme, documentLang, dataTheme, settingsCall>>
  /\ UNCHANGED unsettled

SettingsNext ==
  \/ SetLanguage
  \/ SetTheme
  \/ StorageFails
  \/ StorageRecovers

SettingsSpec == SettingsInit /\ [][SettingsNext]_vars

(***************************************************************************)
(* Properties of the loader (checked under LoaderSpec).                    *)
(***************************************************************************)
LoadEnded == lpc \in {"resolved", "rejected"}

IsNonEmpty(outcome) == ~outcome.threw /\ outcome.prompts # <<>>

\* What each normalizer yields for the language of the call in flight.
CleanAlone ==
  IF unified.ok THEN loadPromptsFromCleanStructure(unified, reqLang) ELSE Outcome(TRUE, <<>>, <<>>)
NestedAlone ==
  IF unified.ok THEN loadPromptsFromNestedStructure(unified, reqLang) ELSE Outcome(TRUE, <<>>, <<>>)
LegacyAlone == loadPromptsLegacy(legacy, reqLang)

\* The id the ID reconstruction rule gives a logical prompt.
ExpectedId(lp) == lp.cat \o NumberToString(lp.seq)

\* The texts a logical prompt can be displayed with.
TextsOf(lp) == { Trim(PromptText(lp, l)) : l \in LanguageCodes }

\* C1: loadPrompts attempts Clean, then Nested, then Legacy, and returns the result
\* of the first normalizer that yields a non-empty CategoryGroup: no failure or
\* empty result of an earlier normalizer is returned while a later one would yield
\* a non-empty catalog.
C1_FirstNonEmptyWins ==
  LoadEnded =>
    /\ attempts \in {<<"clean">>, <<"clean", "nested">>, <<"clean", "nested", "legacy">>, <<"legacy">>}
    /\ (IsNonEmpty(CleanAlone) \/ IsNonEmpty(NestedAlone) \/ IsNonEmpty(LegacyAlone)) =>
         /\ lpc = "resolved"
         /\ returned = Catalog(IF IsNonEmpty(CleanAlone) THEN CleanAlone
                               ELSE IF IsNonEmpty(NestedAlone) THEN NestedAlone
                               ELSE LegacyAlone)

\* C2: for a unified document in the Nested shape the Clean normalizer signals a
\* schema mismatch and the Nested normalizer builds the catalog: loadPrompts returns
\* every Nested prompt that has a requested-language or English translation.
C2_NestedShapeIsLoadedByNested ==
  (LoadEnded /\ unified.ok /\ unified.kind = "nested") =>
    /\ attempts = <<"clean", "nested">>
    /\ \A k \in 1..Len(content) :
         (DOMAIN TranslationsOf(content[k]) \cap {ToLowerCase(reqLang), "en"} # {}) =>
           \E i \in 1..Len(AllPromptsOf(returned)) :
             /\ AllPromptsOf(returned)[i].id = ExpectedId(content[k])
             /\ AllPromptsOf(returned)[i].prompt \in TextsOf(content[k])

\* Every prompt of the list was made from a logical prompt of the content and has the id
\* category identifier ++ sequence number of that logical prompt.
IdsReconstructed(prompts) ==
  \A i \in 1..Len(prompts) :
    \E k \in 1..Len(content) :
      /\ prompts[i].prompt \in TextsOf(content[k])
      /\ prompts[i].id = ExpectedId(content[k])

\* C3: every prompt a normalizer produces (Clean, Nested or Legacy, for every
\* requested language) has the id: raw category identifier ++ sequence number, no
\* separator, never the display name; so the logical prompt (B, 1) is "B1" in all three.
C3_IdIsCategoryIdentifierThenSequence ==
  /\ (produced.by # "" /\ ~produced.outcome.threw) => IdsReconstructed(produced.outcome.prompts)
  /\ lpc = "resolved" => IdsReconstructed(AllPromptsOf(returned))

\* C3 witness: the Nested normalizer produced the logical prompt (B, 1) as "B1" under
\* a display name that differs from the identifier.
C3_Witness ==
  /\ produced.by = "nested"
  /\ ~produced.outcome.threw
  /\ \E i \in 1..Len(produced.outcome.prompts) :
       /\ produced.outcome.prompts[i].id = "B1"
       /\ produced.outcome.prompts[i].category = "Biografie"

\* The (category identifier, sequence number) pairs of the content are pairwise distinct.
DistinctPairs ==
  \A i, j \in 1..Len(content) :
    i < j => <<content[i].cat, content[i].seq>> # <<content[j].cat, content[j].seq>>

NoDuplicateIds(groups) ==
  LET all == AllPromptsOf(groups)
  IN \A i, j \in 1..Len(all) : i < j => all[i].id # all[j].id

EndsInDigit(s) ==
  Len(s) > 0 /\ \E d \in 1..Len(Digits) : CharAt(s, Len(s)) = CharAt(Digits, d)

\* C4 as stated: no two prompts of a returned catalog share an id, for every source
\* whose (category identifier, sequence number) pairs are pairwise distinct.
C4_UniqueIdsForDistinctPairs ==
  (lpc = "resolved" /\ DistinctPairs) => NoDuplicateIds(returned)

\* C4 amended: the same, for sources none of whose category identifiers ends in a
\* decimal digit.
C4_UniqueIdsWithoutDigitSuffix ==
  (lpc = "resolved" /\ DistinctPairs /\ \A k \in 1..Len(content) : ~EndsInDigit(content[k].cat))
    => NoDuplicateIds(returned)

\* C4 witness: a returned catalog with prompts of two categories, from such a source.
C4_Witness ==
  /\ lpc = "resolved"
  /\ DistinctPairs
  /\ \A k \in 1..Len(content) : ~EndsInDigit(content[k].cat)
  /\ Len(returned) = 2
  /\ Len(AllPromptsOf(returned)) = 2

\* The logical prompt has an entry for the language / an entry with both texts.
HasEntry(lp, l) == l \in DOMAIN TranslationsOf(lp)
HasFull(lp, l) == HasEntry(lp, l) /\ DOMAIN TranslationsOf(lp)[l] = {"prompt", "purpose"}

\* The prompt list holds the logical prompt with its texts in language l.
HoldsIn(prompts, lp, l) ==
  \E i \in 1..Len(prompts) :
    /\ prompts[i].id = ExpectedId(lp)
    /\ prompts[i].prompt = Trim(PromptText(lp, l))
    /\ prompts[i].purpose = Trim(PurposeText(lp, l))

\* The logical prompt is in no category's list, and findPromptById does not find it.
Omitted(prompts, lp) ==
  /\ \A i \in 1..Len(prompts) : prompts[i].prompt \notin TextsOf(lp)
  /\ findPromptById(GroupByCategory(prompts), ExpectedId(lp)).prompt \notin TextsOf(lp)

\* How many fallback warnings name the id, and how many source prompts with that id
\* have no translation for the language but an English one.
FallbackWarnings(warnings, id) ==
  Cardinality({ i \in 1..Len(warnings) : warnings[i] = Warning("fallback", id) })
FallenBack(id, l, Exists(_, _)) ==
  Cardinality({ k \in 1..Len(content) :
                  ExpectedId(content[k]) = id /\ ~Exists(content[k], l) /\ Exists(content[k], "en") })

\* The resolution policy for one outcome: requested language, else English with one
\* warning per prompt, else omitted.
PolicyHolds(outcome, l, Exists(_, _)) ==
  \A k \in 1..Len(content) :
    LET lp == content[k]
    IN IF Exists(lp, l) THEN HoldsIn(outcome.prompts, lp, l)
       ELSE IF Exists(lp, "en")
       THEN /\ HoldsIn(outcome.prompts, lp, "en")
            /\ FallbackWarnings(outcome.warnings, ExpectedId(lp)) = FallenBack(ExpectedId(lp), l, Exists)
       ELSE Omitted(outcome.prompts, lp)

\* A normalizer was called on a document of its own schema and returned.
Normalized(by) ==
  /\ produced.by = by
  /\ ~produced.outcome.threw
  /\ by = "clean" => unified.kind = "clean"
  /\ by = "nested" => unified.kind = "nested"

CategoryListed(lp) == CategoryMapHas(unified.categories, lp.cat)
ListedEntry(lp, l) == CategoryListed(lp) /\ HasEntry(lp, l)

DeepLinkHandled == last.op \in {"init", "initFailed"} /\ Len(categoryGroups) > 0

\* The prompts of the category named by the opening address (none if it has no such category).
LinkedPrompts ==
  IF last.query.category \in CategoryKeys(categoryGroups)
  THEN PromptsIn(categoryGroups, last.query.category)
  ELSE <<>>

\* The decoded prefix of the opening address matches a prompt of the linked category.
PrefixMatches ==
  /\ last.query.category # ""
  /\ last.query.prompt # ""
  /\ ~decodeURIComponent(last.query.prompt).threw
  /\ FindByPrefix(LinkedPrompts, decodeURIComponent(last.query.prompt).value) # NoPrompt

\* C6: handleDeepLink resolves in this order, first match wins: (1) an id that
\* findPromptById finds selects that prompt whatever the other parameters are;
\* (2) otherwise category and prompt both present, the category exists and a prompt
\* text in it starts with the decoded prefix: the first such prompt is selected;
\* (3) otherwise category present and existing: a prompt of that category is
\* selected; (4) otherwise there is no match.
C6_DeepLinkPrecedence ==
  DeepLinkHandled =>
    IF last.query.id # "" /\ findPromptById(categoryGroups, last.query.id) # NoPrompt
    THEN /\ (last.op = "init" /\ last.path = "id")
         /\ currentPrompt = findPromptById(categoryGroups, last.query.id)
    ELSE IF PrefixMatches
    THEN /\ (last.op = "init" /\ last.path = "prefix")
         /\ currentPrompt =
              FindByPrefix(LinkedPrompts, decodeURIComponent(last.query.prompt).value)
    ELSE IF last.query.category # "" /\ LinkedPrompts # <<>>
    THEN /\ (last.op = "init" /\ last.path = "category")
         /\ currentPrompt \in getRandomPrompt(LinkedPrompts)
    ELSE (last.op = "init" /\ last.path = "none")

\* handleDeepLink has just succeeded by one of its three paths.
DeepLinkSucceeded == last.op = "init" /\ last.path \in {"id", "prefix", "category"}

\* C7 (as stated): after handleDeepLink succeeds by any of its three successful
\* paths (id found, category plus text prefix, category only) the pinned flag is true.
C7_PinnedAfterEveryDeepLink == DeepLinkSucceeded => isPinned

\* C7 (amended): after handleDeepLink succeeds by its category-only path the pinned
\* flag is true; after it succeeds by an id or by a category plus text prefix the
\* pinned flag is false, as the constructor left it.
C7_PinnedOnlyByCategoryLink ==
  DeepLinkSucceeded => (isPinned <=> last.path = "category")

\* A deep link by id has selected its prompt and the category is not pinned.
C7_Witness ==
  /\ (last.op = "init" /\ last.path = "id")
  /\ currentPrompt.id = last.query.id
  /\ ~isPinned

\* A new-prompt request of the pinned branch has just displayed its prompt.
PinnedRequestDone == last.op = "selectNewPrompt" /\ last.path = "pinned"

\* C8: when a category is pinned and holds more than one prompt, a new-prompt
\* request never displays a prompt whose text equals the text of the prompt
\* displayed immediately before it; when the pinned category holds exactly one
\* prompt, the request displays that prompt again.
C8_PinnedRequestExcludesShownPrompt ==
  PinnedRequestDone =>
    LET prompts == PromptsIn(categoryGroups, currentCategory)
    IN /\ isPinned
       /\ currentPrompt \in getRandomPrompt(prompts)
       /\ Len(prompts) > 1 => currentPrompt.prompt # last.before.prompt
       /\ Len(prompts) = 1 => currentPrompt = prompts[1]

\* A pinned request in a category of several prompts replaced the prompt on display.
C8_Witness ==
  /\ PinnedRequestDone
  /\ Len(PromptsIn(categoryGroups, currentCategory)) > 1
  /\ last.before \in getRandomPrompt(PromptsIn(categoryGroups, currentCategory))
  /\ currentPrompt # last.before

\* A new-prompt request of the unpinned branch has just ended.
UnpinnedRequestDone == last.op = "selectNewPrompt" /\ last.path = "any"

\* C9 (as stated): when no category is pinned and the catalog holds more than one
\* prompt, a new-prompt request never displays a prompt whose text equals the text
\* of the prompt displayed immediately before it.
C9_UnpinnedRequestExcludesShownPrompt ==
  (UnpinnedRequestDone /\ Len(AllPromptsOf(categoryGroups)) > 1 /\ last.before # NoPrompt) =>
    currentPrompt.prompt # last.before.prompt

\* C9 (amended): when no category is pinned (or no category is current) and the
\* catalog is not empty, a new-prompt request displays a prompt drawn from the
\* union of all categories, the prompt displayed before it included, and makes
\* that prompt's category the current one.
C9_UnpinnedRequestDrawsFromAll ==
  (UnpinnedRequestDone /\ Len(AllPromptsOf(categoryGroups)) > 0) =>
    /\ currentPrompt \in getRandomPrompt(AllPromptsOf(categoryGroups))
    /\ currentCategory = currentPrompt.category

\* An unpinned request displayed again the prompt that was on display, in a
\* catalog of several prompts.
C9_Witness ==
  /\ UnpinnedRequestDone
  /\ Len(AllPromptsOf(categoryGroups)) > 1
  /\ last.before # NoPrompt
  /\ currentPrompt = last.before

\* C10: if a second language switch starts before the load of a first switch has
\* resolved, then once both loads have resolved the catalog held by the app is the
\* one built for the last-requested language (the app's current language),
\* whichever load completes last.
C10_LastRequestedLanguageWins ==
  (last.op = "switchLanguage" /\ last.path = "overlapped" /\ switches = <<>>) =>
    categoryGroups = Catalog(loadPrompts(unified, legacy, currentLanguage))

\* The catalog is the initial empty one or all of what one successful loadPrompts
\* call returns for the documents of the server.
CompleteCatalog ==
  \/ categoryGroups = <<>>
  \/ \E language \in Languages :
       /\ ~loadPrompts(unified, legacy, language).threw
       /\ categoryGroups = GroupByCategory(loadPrompts(unified, legacy, language).prompts)

\* A loadPrompts call has just rejected, in init() or in switchLanguage.
LoadFailed ==
  \/ last.op = "initFailed" /\ last.path = "load"
  \/ last.op = "switchLanguage" /\ last.path = "failed"

\* The catalog held when the load that has just failed was started: the empty one
\* in init(); in switchLanguage (the page was ready, so init() had loaded a catalog)
\* the result of a load that succeeds.
HeldBeforeFailure(groups) ==
  IF last.op = "initFailed" THEN groups = <<>>
  ELSE \E language \in Languages :
         /\ ~loadPrompts(unified, legacy, language).threw
         /\ groups = GroupByCategory(loadPrompts(unified, legacy, language).prompts)

\* C11 (as stated): at every moment the app's catalog is either the initial empty
\* catalog or the complete result of one successful loadPrompts call, never a
\* partially built one; a load that fails leaves the previously held catalog unchanged.
C11_CatalogCompleteAndKeptOnFailure ==
  /\ CompleteCatalog
  /\ LoadFailed => HeldBeforeFailure(categoryGroups)

\* C11 (amended): the catalog is always the initial empty catalog or the complete
\* result of one successful loadPrompts call; a load that fails in init() leaves
\* the (empty) catalog unchanged; a load that fails in switchLanguage assigns no
\* catalog but reloads the page, so the catalog held before is gone: the app is
\* constructed again with the empty catalog.
C11_CatalogCompleteOrPageReloaded ==
  /\ CompleteCatalog
  /\ LoadFailed => categoryGroups = <<>>
  /\ (last.op = "switchLanguage" /\ last.path = "failed") => phase = "loading"

\* A load of switchLanguage failed while a catalog with prompts was held: the page
\* is loading again and holds no catalog.
C11_Witness ==
  /\ last.op = "switchLanguage"
  /\ last.path = "failed"
  /\ phase = "loading"
  /\ categoryGroups = <<>>
  /\ \E language \in Languages :
       /\ ~loadPrompts(unified, legacy, language).threw
       /\ loadPrompts(unified, legacy, language).prompts # <<>>

\* Each normalizer, run on the server's documents for a language, raises an error
\* (the fetch of its document failing included).
EveryNormalizerFails(language) ==
  /\ ~unified.ok \/ loadPromptsFromCleanStructure(unified, language).threw
  /\ ~unified.ok \/ loadPromptsFromNestedStructure(unified, language).threw
  /\ loadPromptsLegacy(legacy, language).threw

\* init() has run to its end.
InitEnded == last.op \in {"init", "initFailed"}

\* C12: if every normalizer fails (including failure to fetch a source document),
\* loadPrompts fails with an error instead of returning a catalog, and init() then
\* shows the error view and displays no prompt.
C12_AllNormalizersFailIsFatal ==
  /\ \A language \in Languages :
       EveryNormalizerFails(language) => loadPrompts(unified, legacy, language).threw
  /\ (InitEnded /\ EveryNormalizerFails(currentLanguage)) =>
       /\ phase = "error"
       /\ last.path = "load"
       /\ categoryGroups = <<>>
       /\ currentPrompt = NoPrompt

\* init() ended in the error view: the unified file was fetched but has neither
\* shape, and there is no legacy file.
C12_Witness ==
  /\ InitEnded
  /\ EveryNormalizerFails(currentLanguage)
  /\ unified.ok
  /\ phase = "error"
  /\ currentPrompt = NoPrompt

\* The unified file was fetched and has neither the Clean nor the Nested shape; the
\* legacy file of the requested language exists and holds at least one document.
OnlyLegacyLoads ==
  /\ unified.ok
  /\ unified.kind = "other"
  /\ LegacyFile(legacy, reqLang).ok
  /\ LegacyFile(legacy, reqLang).docs # <<>>

\* C13: when the unified source matches neither the Clean nor the Nested shape and
\* a valid legacy per-language document exists, loadPrompts returns a non-empty
\* CategoryGroup built from the legacy documents, and one warning is logged for
\* each earlier schema (Clean, Nested) that was attempted and failed.
C13_LegacyAfterTwoWarnings ==
  (LoadEnded /\ OnlyLegacyLoads) =>
    /\ lpc = "resolved"
    /\ attempts = <<"clean", "nested", "legacy">>
    /\ returned # <<>>
    /\ returned = GroupByCategory(loadPromptsLegacy(legacy, reqLang).prompts)
    /\ logged = <<Warning("cleanFailed", ""), Warning("unifiedFailed", "")>>

\* A load has ended with the catalog of the legacy documents.
C13_Witness ==
  /\ LoadEnded
  /\ OnlyLegacyLoads
  /\ lpc = "resolved"
  /\ Len(AllPromptsOf(returned)) > 1
  /\ Len(logged) = 2

\* A normalizer was called on a document of its own schema (for Legacy: on the
\* file of the language asked for, which exists).
CalledOnOwnSchema(by) ==
  /\ produced.by = by
  /\ by = "clean" => unified.kind = "clean"
  /\ by = "nested" => unified.kind = "nested"
  /\ by = "legacy" => LegacyFile(legacy, produced.language).ok

\* C14: a prompt whose translation for the requested language is missing or
\* incomplete (no entry for the language, or an entry lacking its prompt or purpose
\* text) never makes the load fail in any normalizer: the normalizer still succeeds
\* and only that single prompt falls back to English or is omitted.
C14_MissingTranslationsNeverFatal ==
  \A by \in {"clean", "nested", "legacy"} :
    CalledOnOwnSchema(by) =>
      /\ ~produced.outcome.threw
      /\ \A k \in 1..Len(content) :
           HasFull(content[k], ToLowerCase(produced.language)) =>
             \E i \in 1..Len(produced.outcome.prompts) :
               produced.outcome.prompts[i].prompt \in TextsOf(content[k])

\* The names the unified document gives the category (none where it has no entry for it).
NamesListed(cat) ==
  IF CategoryMapHas(unified.categories, cat)
  THEN CategoryMapGet(unified.categories, cat).names
  ELSE [l \in {} |-> ""]

\* The display name the fallback order yields for the category of a logical prompt.
ExpectedCategory(lp, l) ==
  IF l \in DOMAIN NamesListed(lp.cat) THEN DisplayName(lp.cat, l)
  ELSE IF "en" \in DOMAIN NamesListed(lp.cat) THEN DisplayName(lp.cat, "en")
  ELSE lp.cat

\* The outcome holds the logical prompt under the expected display name.
NamedIn(prompts, lp, l) ==
  \E i \in 1..Len(prompts) :
    /\ prompts[i].prompt \in TextsOf(lp)
    /\ prompts[i].category = ExpectedCategory(lp, l)

\* C15 as stated: for every source prompt that has a usable translation, the category
\* display name is the requested-language name if present, else the English name, else
\* the raw category identifier; a missing category name or category entry never
\* causes the prompt to be skipped.
C15_CategoryNameNeverSkips ==
  \A by \in {"clean", "nested"} :
    Normalized(by) =>
      \A k \in 1..Len(content) :
        (HasFull(content[k], ToLowerCase(produced.language)) \/ HasFull(content[k], "en"))
          => NamedIn(produced.outcome.prompts, content[k], ToLowerCase(produced.language))

\* C15 amended: the same fallback order for every prompt with a usable translation
\* whose category has an entry; a missing category name never causes the prompt to be
\* skipped, but the Nested normalizer skips, with a warning, every prompt whose
\* category has no entry in the categories list.
C15_CategoryNameFallbackWhereListed ==
  \A by \in {"clean", "nested"} :
    Normalized(by) =>
      \A k \in 1..Len(content) :
        LET lp == content[k]
            l == ToLowerCase(produced.language)
        IN IF CategoryListed(lp)
           THEN (HasFull(lp, l) \/ HasFull(lp, "en")) => NamedIn(produced.outcome.prompts, lp, l)
           ELSE /\ by = "nested"
                /\ Omitted(produced.outcome.prompts, lp)
                /\ Warning("categoryNotFound", ExpectedId(lp)) \in
                     { produced.outcome.warnings[i] : i \in 1..Len(produced.outcome.warnings) }

\* C15 witness: the Nested normalizer, asked for German, returned one prompt under its
\* category's English name and skipped another whose category has no entry.
C15_Witness ==
  /\ Normalized("nested")
  /\ produced.language = "DE"
  /\ \E k \in 1..Len(content) :
       /\ CategoryListed(content[k])
       /\ DOMAIN NamesListed(content[k].cat) = {"en"}
       /\ NamedIn(produced.outcome.prompts, content[k], "de")
  /\ \E k \in 1..Len(content) :
       /\ ~CategoryListed(content[k])
       /\ HasFull(content[k], "de")
       /\ Omitted(produced.outcome.prompts, content[k])

(***************************************************************************)
(* Properties of catalogs built in a row (checked under RoundTripSpec).    *)
(***************************************************************************)
\* The set of prompt ids of a catalog.
IdsOf(groups) == { AllPromptsOf(groups)[i].id : i \in 1..Len(AllPromptsOf(groups)) }

\* The ids of the source prompts that satisfy a condition.
IdsWhere(Cond(_)) == { ExpectedId(content[k]) : k \in { j \in 1..Len(content) : Cond(content[j]) } }

\* C16 as stated: for every pair of languages A and B and an unchanged source, the
\* catalogs built by loading A, then B, then A again all contain the identical set of
\* prompt ids.
C16_SameIdsInEveryLanguage ==
  \A i, j \in 1..Len(loads) :
    (~loads[i].threw /\ ~loads[j].threw) => IdsOf(loads[i].catalog) = IdsOf(loads[j].catalog)

\* C16 amended: loading a language again yields the catalog of its first load; the
\* catalog of a language holds, from a Clean source, the ids of the prompts that have a
\* complete translation for that language or for English, and from Legacy files alone
\* the ids of that language's own file, so the id sets of two languages can differ.
C16_SameIdsPerLanguage ==
  /\ \A i, j \in 1..Len(loads) : loads[i].language = loads[j].language => loads[i] = loads[j]
  /\ \A i \in 1..Len(loads) :
       LET l == ToLowerCase(loads[i].language)
           ResolvesClean(lp) == HasFull(lp, l) \/ HasFull(lp, "en")
           InOwnFile(lp) == HasFull(lp, l)
       IN /\ unified.kind = "clean" =>
               ~loads[i].threw /\ IdsOf(loads[i].catalog) = IdsWhere(ResolvesClean)
          /\ (~unified.ok /\ ~loads[i].threw) => IdsOf(loads[i].catalog) = IdsWhere(InOwnFile)

\* C16 witness: a Clean source was loaded for A, then B, then A again; every load built
\* a catalog, the third equals the first, and B's catalog holds an id A's lacks.
C16_Witness ==
  /\ Len(loads) = 3
  /\ unified.kind = "clean"
  /\ loads[1].language # loads[2].language
  /\ loads[3].language = loads[1].language
  /\ \A i \in 1..3 : ~loads[i].threw /\ loads[i].catalog # <<>>
  /\ loads[3].catalog = loads[1].catalog
  /\ IdsOf(loads[2].catalog) \ IdsOf(loads[1].catalog) # {}

(***************************************************************************)
(* Properties of the app, continued (checked under Spec).                  *)
(***************************************************************************)
\* init() has ended after handleDeepLink returned false on a non-empty catalog.
NoMatchHandled == last.op = "init" /\ last.path = "none"

\* The prompts of the whole catalog, as a set.
WholeCatalog == { AllPromptsOf(categoryGroups)[i] : i \in 1..Len(AllPromptsOf(categoryGroups)) }

\* C17: when handleDeepLink finds no match on a non-empty catalog, init displays a
\* random prompt drawn from the whole catalog with the pinned flag false, and no error
\* view is shown.
C17_NoMatchFallsBackToRandomPrompt ==
  NoMatchHandled =>
    /\ Len(categoryGroups) > 0
    /\ phase = "ready"
    /\ currentPrompt \in WholeCatalog
    /\ currentCategory = currentPrompt.category
    /\ ~isPinned

\* C17 witness: the page was opened with an id no prompt has, the catalog has two
\* categories, and a prompt of the second one is on display, unpinned.
C17_Witness ==
  /\ NoMatchHandled
  /\ last.query.id = "ZZ9"
  /\ Len(categoryGroups) = 2
  /\ currentPrompt \in WholeCatalog
  /\ currentPrompt.category = categoryGroups[2].category
  /\ ~isPinned
  /\ phase = "ready"

\* C18: when handleDeepLink finds no match although an `id` or a `category` parameter
\* was supplied, the address is left without any query parameters, and it still has
\* none after the fallback random prompt has been displayed.
C18_InvalidParametersStripped ==
  (NoMatchHandled /\ (last.query.id # "" \/ last.query.category # "")) =>
    /\ search = NoSearch
    /\ ~wasOpenedWithDeepLink
    /\ currentPrompt \in WholeCatalog

\* C18 witness: the page was opened with a category the catalog lacks and a prompt
\* prefix; the fallback prompt is on display and the address has no query.
C18_Witness ==
  /\ NoMatchHandled
  /\ last.query.id = ""
  /\ last.query.category # ""
  /\ last.query.prompt # ""
  /\ currentPrompt \in WholeCatalog
  /\ search = NoSearch

\* The address carries exactly one parameter, `id`, with the id of the prompt on display.
AddressNamesCurrentPrompt == search = [id |-> currentPrompt.id, category |-> "", prompt |-> ""]

\* C19 as stated: after the app has displayed a prompt, the address either carries no
\* query parameters or carries exactly one parameter `id` whose value is the id of the
\* currently displayed prompt, after every sequence of deep-link load, category
\* selection, new-prompt, pin toggle, copy-link and language-switch operations.
C19_AddressEmptyOrCurrentId ==
  (phase = "ready" /\ currentPrompt # NoPrompt) =>
    (search = NoSearch \/ AddressNamesCurrentPrompt)

\* A new-prompt request made while the pinned flag was true and a category was
\* current has ended: it displayed its draw, or getRandomPrompt raised an error.
PinnedRequestEnded == last.op = "selectNewPrompt" /\ last.path \in {"pinned", "threw"}

\* C20: while the pinned flag is true and a category is current, every new-prompt
\* request displays a prompt that belongs to the current category and leaves the
\* current category unchanged; while the flag is false, a new-prompt request samples
\* from the whole catalog.
C20_PinnedRequestStaysInCategory ==
  /\ PinnedRequestEnded =>
       /\ last.path = "pinned"
       /\ currentCategory = last.before.category
       /\ currentCategory \in CategoryKeys(categoryGroups)
       /\ currentPrompt \in getRandomPrompt(PromptsIn(categoryGroups, currentCategory))
  /\ (UnpinnedRequestDone /\ ~isPinned /\ Len(categoryGroups) > 0) =>
       currentPrompt \in WholeCatalog

\* The ids looked up: those of the source's prompts, one no prompt has, and none.
LookedUpIds == {"B1", "B11", "C1", "ZZ9", ""}

\* What the lookup of an id in the app's catalog must answer.
FoundOrNull(id, answer) ==
  IF \E p \in WholeCatalog : p.id = id
  THEN answer \in WholeCatalog /\ answer.id = id
  ELSE answer = NoPrompt

\* C21: findPromptById(catalog, id) returns a prompt of the catalog whose id equals the
\* given id whenever one exists in any category, and otherwise returns null without
\* raising an error; it never returns a prompt with a different id.
C21_FindPromptByIdFindsExactlyTheId ==
  /\ \A id \in LookedUpIds \cup {last.query.id} :
       FoundOrNull(id, findPromptById(categoryGroups, id))
  /\ (last.op = "init" /\ last.query.id # "" /\ Len(categoryGroups) > 0) =>
       IF \E p \in WholeCatalog : p.id = last.query.id
       THEN last.path = "id" /\ currentPrompt \in WholeCatalog /\ currentPrompt.id = last.query.id
       ELSE last.path # "id"
  /\ (last.op = "initFailed" /\ last.path = "deepLink") =>
       \A p \in WholeCatalog : p.id # last.query.id

\* C21 witness: the page was opened with the id of a prompt of the catalog's second
\* category, and init displays that prompt.
C21_Witness ==
  /\ last.op = "init"
  /\ last.path = "id"
  /\ Len(categoryGroups) = 2
  /\ currentPrompt.id = last.query.id
  /\ currentPrompt.category = categoryGroups[2].category
  /\ currentPrompt \in WholeCatalog

\* C22: for any two language codes that differ only in letter case (for example 'EN'
\* and 'en'), loadPrompts against the same sources returns the same catalog, on every
\* path of the loader chain including the Legacy path.
C22_SameCatalogInEitherLetterCase ==
  \A i, j \in 1..Len(loads) :
    ToLowerCase(loads[i].language) = ToLowerCase(loads[j].language) =>
      /\ loads[i].threw = loads[j].threw
      /\ loads[i].catalog = loads[j].catalog

\* C23: the re-sampling loop of a pinned new-prompt request terminates (under fair
\* random choice) for every catalog the loader can produce and every pinned category
\* holding more than one prompt.
C23_ResamplingTerminates == (phase = "selectingNewPrompt") ~> (phase = "ready")

\* C24: a pinned new-prompt request never samples from a category that is absent from
\* the current catalog: wherever the pinned flag is true and the current category is
\* non-empty, the current category is a key of the current catalog with at least one
\* prompt, including after a language switch whose new catalog is empty or does not
\* contain the viewed prompt.
C24_PinnedCategoryIsInCatalog ==
  (phase = "ready" /\ isPinned /\ currentCategory # "") =>
    /\ currentCategory \in CategoryKeys(categoryGroups)
    /\ Len(PromptsIn(categoryGroups, currentCategory)) >= 1

\* A switchLanguage call has just run to its end on the catalog it loaded.
SwitchCompleted == last.op = "switchLanguage" /\ last.path \in {"alone", "overlapped"}

\* C25: when a language switch completes and the id of the prompt the user is viewing
\* at the moment the new catalog is committed exists in the new catalog, the prompt
\* displayed afterwards has that same id, also when the user requested a new prompt or
\* selected a category while the load was in flight; when that id does not exist in the
\* new catalog, a random prompt of the new catalog is displayed.
C25_ViewedPromptSurvivesSwitch ==
  (SwitchCompleted /\ last.before # NoPrompt /\ Len(categoryGroups) > 0) =>
    IF \E p \in WholeCatalog : p.id = last.before.id
    THEN currentPrompt \in WholeCatalog /\ currentPrompt.id = last.before.id
    ELSE currentPrompt \in WholeCatalog

\* C26: a language switch preserves the purpose visibility: if the purpose text is
\* visible when switchLanguage starts and the viewed prompt exists in the new catalog,
\* the purpose is visible when the switch completes, and if it was hidden it stays hidden.
C26_SwitchKeepsPurposeVisibility ==
  (SwitchCompleted /\ \E p \in WholeCatalog : p.id = last.snapshot.currentPromptId) =>
    purposeVisible = last.snapshot.wasShowingPurpose

\* copyCurrentLink has just put window.location.href on the clipboard.
LinkCopied == last.op = "copyCurrentLink"

\* C27: whenever a prompt is displayed, the address copied by copyCurrentLink (and by
\* fallbackCopyLink) carries an `id` parameter equal to the id of the currently
\* displayed prompt, after any sequence of prior deep-link, category-selection,
\* new-prompt, copy-link and language-switch operations.
C27_CopiedLinkNamesCurrentPrompt ==
  (LinkCopied /\ currentPrompt # NoPrompt) => AddressNamesCurrentPrompt

\* C27 witness: a link was copied on a page not opened with a deep link, after a
\* language switch, while a prompt of the catalog is displayed.
C27_Witness ==
  /\ LinkCopied
  /\ ~wasOpenedWithDeepLink
  /\ currentLanguage # getCurrentLanguage("", FALSE)
  /\ currentPrompt \in WholeCatalog
  /\ AddressNamesCurrentPrompt

\* C28: after every new-prompt request (selectNewPrompt), from any state, the deep-link
\* flag is false and the address has no query parameters, whichever prompt ends up
\* displayed.
C28_NewPromptRequestClearsAddress ==
  last.op = "selectNewPrompt" => (~wasOpenedWithDeepLink /\ search = NoSearch)

\* C28 witness: an unpinned new-prompt request has replaced the prompt on display by
\* another prompt of the catalog, and the address has no query.
C28_Witness ==
  /\ UnpinnedRequestDone
  /\ last.before # NoPrompt
  /\ currentPrompt \in WholeCatalog
  /\ currentPrompt.id # last.before.id
  /\ ~wasOpenedWithDeepLink
  /\ search = NoSearch

(***************************************************************************)
(* Properties of TranslationManager (checked under TranslationSpec).       *)
(***************************************************************************)
\* English is in the map or its file can be imported.
EnglishAvailable == "EN" \in translations \/ "en" \in translationFiles

\* C29: when an initialize call has ended whose import of the requested language was
\* rejected, and English is loaded or can be loaded, the current translation language
\* is 'EN' and get gives every key of the English file its English text, not the key.
C29_FailedLoadFallsBackToEnglish ==
  (initialized.failed /\ EnglishAvailable) =>
    /\ translationLanguage = "EN"
    /\ \A key \in TextKeys : get(translations, translationLanguage, key) = TextOf("en", key)

(***************************************************************************)
(* Properties of SettingsManager (checked under SettingsSpec).             *)
(***************************************************************************)
\* What a set call with an unsupported value does, and only such a call: it raises an
\* error, and the stored value is the one before the call.
UnsupportedValueRaises ==
  /\ settingsCall.op = "setLanguage" =>
       /\ settingsCall.threw <=> settingsCall.value \notin Languages
       /\ settingsCall.threw => storedLanguage = settingsCall.before
  /\ settingsCall.op = "setTheme" =>
       /\ settingsCall.threw <=> settingsCall.value \notin AVAILABLE_THEMES
       /\ settingsCall.threw => storedTheme = settingsCall.before

\* Both getters return an available value.
GettersReturnAvailable ==
  /\ getCurrentLanguage(storedLanguage, storageThrows) \in Languages
  /\ getCurrentTheme(storedTheme, storageThrows) \in AVAILABLE_THEMES

====
